---- MODULE Spec2Model ----
(***************************************************************************)
(* A model of mopper (ghsnd/mopper): the plan rewriter, the driver that    *)
(* wires and runs one worker per plan node, and the operators' stream      *)
(* protocols.                                                              *)
(*                                                                         *)
(* Node ids are the positions of the nodes in plan.nodes.  Rust counts     *)
(* them from 0, the sequences here from 1; ids are only compared for       *)
(* equality and order, which the shift keeps.                              *)
(***************************************************************************)
EXTENDS Integers, Sequences, FiniteSets, TLC

VARIABLES
    (* rewrite (plan_rewriter.rs) *)
    plan,           \* rewrite's input: [nodes, edges] (plan.rs PlanGraph)
    to_one_target,  \* rewrite's second argument
    node_map,       \* rewrite's local node_map: id -> Node
    rpc,            \* position inside rewrite
    (* one Join worker (operator/join.rs) *)
    join_op,        \* the JoinOperator: its attribute pairs
    join_in,        \* what each upstream sends: [left, right], header first
    join_pos,       \* how many tuples of each side the worker has received
    join_st,        \* the locals of the worker thread
    join_out,       \* the tuples sent on every outbound channel, in order
    join_pc,        \* "running" or "exited"
    (* one Extend worker (operator/extension.rs) *)
    ext_op,         \* the ExtendOperator: [functions, join_alias]
    ext_in,         \* what the upstream sends, header first
    ext_pos,        \* how many tuples the worker has received
    ext_names,      \* the variable names bound into the functions
    ext_out,        \* the tuples sent on every outbound channel, in order
    ext_pc,         \* position inside the worker thread
    (* one run of start (lib.rs) *)
    run_plan,       \* reduced_plan: what rewrite returned
    run_opts,       \* the options and the state of the source files
    driver,         \* the locals of start and its position
    workers,        \* node id -> the worker thread of the node
    channels,       \* receiving node id -> number of queued tuples
    (* one WriterSink worker (sink/writer_sink.rs) *)
    sink_deduplicate, \* the sink's deduplicate flag
    sink_in,        \* what the upstream sends
    sink_pos,       \* how many tuples the worker has received
    dedup_filter,   \* the worker's local dedup_filter
    sink_out,       \* what was written to the writer, one entry per write_all
    sink_pc,        \* position inside the worker thread
    sink_flushed,   \* whether the writer was flushed
    sink_status,    \* what the worker thread returned, once it has
    (* one call of parse_template (function/template_parser.rs) *)
    tpl_template,   \* the argument template
    tpl_join_alias, \* the argument join_alias
    tpl_pos,        \* how many characters were handled
    tpl_st,         \* the locals of parse_template
    tpl_result,     \* what the call returned, once it has
    (* one call of create_template_template_string_parts (serializer.rs) *)
    scan_template,  \* the argument template
    scan_pos,       \* how many characters were handled
    scan_st,        \* the locals of the call
    scan_result,    \* what the call returned, once it has
    (* one run with the tuples the workers exchange (lib.rs and the workers) *)
    flow_input,     \* the plan as read, the files, the options: [plan, files, options]
    flow_plan,      \* reduced_plan: what rewrite returned
    flow_w,         \* node id -> the worker thread of the node
    flow_chan,      \* receiving node id -> the queued tuples
    flow_sent,      \* node id -> the tuples its worker sent, in order
    flow_recv,      \* node id -> the tuples its worker received, in order
    flow_written,   \* sink node id -> what was written, one entry per write_all
    flow_driver     \* position and result of start, the files it created

rwVars == <<plan, to_one_target, node_map, rpc>>
joinVars == <<join_op, join_in, join_pos, join_st, join_out, join_pc>>
extVars == <<ext_op, ext_in, ext_pos, ext_names, ext_out, ext_pc>>
runVars == <<run_plan, run_opts, driver, workers, channels>>
sinkVars == <<sink_deduplicate, sink_in, sink_pos, dedup_filter, sink_out, sink_pc,
              sink_flushed, sink_status>>
parseVars == <<tpl_template, tpl_join_alias, tpl_pos, tpl_st, tpl_result>>
scanVars == <<scan_template, scan_pos, scan_st, scan_result>>
flowVars == <<flow_input, flow_plan, flow_w, flow_chan, flow_sent, flow_recv,
              flow_written, flow_driver>>
vars == <<rwVars, joinVars, extVars, runVars, sinkVars, parseVars, scanVars, flowVars>>

(* The variables each part of the program leaves alone. *)
outsideRewrite == <<joinVars, extVars, runVars, sinkVars, parseVars, scanVars, flowVars>>
outsideJoin == <<rwVars, extVars, runVars, sinkVars, parseVars, scanVars, flowVars>>
outsideExtend == <<rwVars, joinVars, runVars, sinkVars, parseVars, scanVars, flowVars>>
outsideRun == <<rwVars, joinVars, extVars, sinkVars, parseVars, scanVars, flowVars>>
outsideParse == <<rwVars, joinVars, extVars, runVars, sinkVars, scanVars, flowVars>>
outsideSink == <<rwVars, joinVars, extVars, runVars, parseVars, scanVars, flowVars>>
outsideFlow == <<rwVars, joinVars, extVars, runVars, sinkVars, parseVars, scanVars>>
outsideScan == <<rwVars, joinVars, extVars, runVars, sinkVars, parseVars, flowVars>>

----------------------------------------------------------------------------
(* Bound of the enumerated input plans: the number of nodes. *)
MaxNodes == 5

(* The Source and the Target configurations of the enumerated plans. *)
IOConfigs == {1, 2}

----------------------------------------------------------------------------
(* Option<T>: None is the empty sequence, Some(x) the one-element sequence. *)
None == <<>>
Some(x) == <<x>>

(* Rust's Vec::contains / slices as sequences. *)
Range(s) == {s[i] : i \in DOMAIN s}

(* operator::Operator, reduced to what the rewriter and the driver read:   *)
(* the variant, the I/O configuration (hashed by add_to_hash_map), the     *)
(* projection attributes and the join alias.                               *)
Op(kind, config, projection_attributes, join_alias) ==
    [kind |-> kind, config |-> config,
     projection_attributes |-> projection_attributes, join_alias |-> join_alias]

ProjAttrs == {"a"}
JoinAlias == "j"

OpSet ==
    {Op("Source", c, {}, "") : c \in IOConfigs}
    \cup {Op("Target", c, {}, "") : c \in IOConfigs}
    \cup {Op("Project", 0, ProjAttrs, ""), Op("Fragment", 0, {}, ""),
          Op("Join", 0, {}, JoinAlias), Op("Extend", 0, {}, ""),
          Op("Serialize", 0, {}, "")}

(* plan.rs Node as deserialized: edges empty, no attributes, no alias. *)
Node(op) ==
    [operator |-> op, from |-> <<>>, to |-> <<>>,
     attributes |-> None, join_alias |-> None]

(* ---- plan.rs: the edit primitives of Node ---- *)
add_from(n, id) == [n EXCEPT !.from = Append(@, id)]

replace_from(n, old_id, new_id) ==
    [n EXCEPT !.from = [i \in DOMAIN n.from |->
                            IF n.from[i] = old_id THEN new_id ELSE n.from[i]]]

add_all_from(n, ids) == [n EXCEPT !.from = @ \o ids]

add_to(n, id) == [n EXCEPT !.to = Append(@, id)]

add_all_to(n, ids) == [n EXCEPT !.to = @ \o ids]

replace_to(n, old_id, new_id) ==
    [n EXCEPT !.to = [i \in DOMAIN n.to |->
                            IF n.to[i] = old_id THEN new_id ELSE n.to[i]]]

change_to_ids(n, ids_to_add, id_to_remove) ==
    [n EXCEPT !.to = SelectSeq(n.to, LAMBDA id : id # id_to_remove) \o ids_to_add]

add_attributes(n, attributes) ==
    IF n.attributes # None
    THEN IF attributes # None
         THEN [n EXCEPT !.attributes = Some(n.attributes[1] \cup attributes[1])]
         ELSE n
    ELSE [n EXCEPT !.attributes = attributes]

----------------------------------------------------------------------------
(* ---- The input plans ---- *)
(* A plan is well formed when every node has the number of inputs its      *)
(* operator reads (Source none, Join two: lib.rs and the rewriter index    *)
(* from[0] and from[1]; every other operator one), a Target is fed by a    *)
(* Serialize and a Serialize feeds only Targets, no node feeds a Source,   *)
(* and the edges form no cycle.  The enumerated plans list their nodes     *)
(* upstream first (every edge goes from a lower to a higher id) and their  *)
(* edges consumer by consumer, each consumer's inputs from left to right.  *)
InputArity(kind) ==
    CASE kind = "Source" -> 0
      [] kind = "Join"   -> 2
      [] OTHER           -> 1

MayFeed(producer, consumer) ==
    CASE consumer = "Source"    -> FALSE
      [] consumer = "Target"    -> producer = "Serialize"
      [] consumer = "Serialize" -> producer = "Extend"
      [] OTHER -> producer \in {"Source", "Project", "Fragment", "Join", "Extend"}

FromChoices(ops, i) ==
    LET feeders == {j \in DOMAIN ops : j < i /\ MayFeed(ops[j].kind, ops[i].kind)}
        arity == InputArity(ops[i].kind)
    IN  IF arity = 0 THEN {<<>>}
        ELSE IF arity = 1 THEN {<<f>> : f \in feeders}
        ELSE {<<f, g>> : f \in feeders, g \in feeders}

RECURSIVE FromAssignments(_, _)
FromAssignments(ops, i) ==
    IF i = 0 THEN {<<>>}
    ELSE {Append(p, c) : p \in FromAssignments(ops, i - 1), c \in FromChoices(ops, i)}

(* Nodes that reach t through one or more edges, by at most k rounds. *)
RECURSIVE Upstream(_, _, _)
Upstream(froms, S, k) ==
    IF k = 0 THEN S
    ELSE Upstream(froms, S \cup UNION {Range(froms[t]) : t \in S}, k - 1)

Acyclic(froms) ==
    \A t \in DOMAIN froms :
        t \notin Upstream(froms, Range(froms[t]), Len(froms))

RECURSIVE EdgesOf(_, _)
EdgesOf(froms, t) ==
    IF t = 0 THEN <<>>
    ELSE EdgesOf(froms, t - 1) \o [k \in DOMAIN froms[t] |-> <<froms[t][k], t>>]

PlanGraph(ops, froms) ==
    [nodes |-> [i \in DOMAIN ops |-> Node(ops[i])],
     edges |-> EdgesOf(froms, Len(froms))]

OpVectors == UNION {[1..n -> OpSet] : n \in 1..MaxNodes}

IsInputPlan(p) ==
    \E ops \in OpVectors :
        \E froms \in FromAssignments(ops, Len(ops)) :
            Acyclic(froms) /\ p = PlanGraph(ops, froms)

----------------------------------------------------------------------------
(* ---- plan_rewriter.rs: rewrite ---- *)

(* HashMap insert / remove on node_map. *)
Insert(nm, id, node) == [k \in DOMAIN nm \cup {id} |-> IF k = id THEN node ELSE nm[k]]
Remove(nm, id) == [k \in DOMAIN nm \ {id} |-> nm[k]]

IndicesOf(p, kind) ==
    SelectSeq([i \in DOMAIN p.nodes |-> i], LAMBDA i : p.nodes[i].operator.kind = kind)

fragment_indices(p) == IndicesOf(p, "Fragment")
projection_indices(p) == IndicesOf(p, "Project")
join_indices(p) == IndicesOf(p, "Join")

(* add_to_hash_map's key.  DefaultHasher is taken to be free of            *)
(* collisions: equal keys exactly for equal configurations of the same     *)
(* operator variant; the constant key 0 is the pair <<"Const", 0>>.        *)
hash_of_variant_only(op, constant_hash) ==
    IF constant_hash THEN <<"Const", 0>> ELSE <<op.kind, 0>>

hash(op, constant_hash) ==
    IF constant_hash THEN <<"Const", 0>> ELSE <<op.kind, op.config>>

io_hash_unforced(p, one_target, i) == hash(p.nodes[i].operator, FALSE)

io_hash(p, one_target, i) ==
    hash(p.nodes[i].operator, one_target /\ p.nodes[i].operator.kind = "Target")

io_ids(p) ==
    {i \in DOMAIN p.nodes : p.nodes[i].operator.kind \in {"Source", "Target"}}

(* The bucket of a key: the ids pushed under it, in the order of the scan. *)
bucket_of(p, one_target, h) ==
    SelectSeq([i \in DOMAIN p.nodes |-> i],
              LAMBDA i : i \in io_ids(p) /\ io_hash(p, one_target, i) = h)

(* io_hash_to_node_index.values().filter(|nodes| nodes.len() > 1) *)
same_io_buckets(p, one_target) ==
    {b \in {bucket_of(p, one_target, io_hash(p, one_target, i)) : i \in io_ids(p)} :
        Len(b) > 1}

(* Lines 39-70: copy the nodes, then set the edges into the node objects. *)
RECURSIVE set_edges(_, _, _)
set_edges(nm, edges, k) ==
    IF k = 0 THEN nm
    ELSE LET m == set_edges(nm, edges, k - 1)
             f == edges[k][1]
             t == edges[k][2]
             m1 == Insert(m, f, add_to(m[f], t))
         IN  Insert(m1, t, add_from(m1[t], f))

initial_node_map(p) ==
    set_edges([i \in DOMAIN p.nodes |-> p.nodes[i]], p.edges, Len(p.edges))

(* Lines 79-107 for one bucket: the survivor with the other members' edges *)
(* added, and the (id, clone) pairs pushed on changed_nodes.  Every clone  *)
(* is taken from node_map as it was before the pass.                       *)
RECURSIVE first_io(_, _, _)
first_io(nm, bucket, k) ==
    IF k = 1 THEN nm[bucket[1]]
    ELSE add_all_from(add_all_to(first_io(nm, bucket, k - 1), nm[bucket[k]].to),
                      nm[bucket[k]].from)

other_io_changes(nm, other_io_id, first_io_id) ==
    [k \in DOMAIN nm[other_io_id].to |->
        <<nm[other_io_id].to[k],
          replace_from(nm[nm[other_io_id].to[k]], other_io_id, first_io_id)>>]
    \o
    [k \in DOMAIN nm[other_io_id].from |->
        <<nm[other_io_id].from[k],
          replace_to(nm[nm[other_io_id].from[k]], other_io_id, first_io_id)>>]

RECURSIVE bucket_changes(_, _, _)
bucket_changes(nm, bucket, k) ==
    IF k = 1 THEN <<>>
    ELSE bucket_changes(nm, bucket, k - 1) \o other_io_changes(nm, bucket[k], bucket[1])

RECURSIVE changed_nodes(_, _, _)
changed_nodes(nm, order, k) ==
    IF k = 0 THEN <<>>
    ELSE changed_nodes(nm, order, k - 1)
         \o bucket_changes(nm, order[k], Len(order[k]))
         \o << <<order[k][1], first_io(nm, order[k], Len(order[k]))>> >>

RECURSIVE merged_io_ids_to_remove(_, _)
merged_io_ids_to_remove(order, k) ==
    IF k = 0 THEN {}
    ELSE merged_io_ids_to_remove(order, k - 1) \cup Range(Tail(order[k]))

(* for (node_id, updated_node) in changes { node_map.insert(..) } *)
RECURSIVE insert_all(_, _, _)
insert_all(nm, changes, k) ==
    IF k = 0 THEN nm
    ELSE Insert(insert_all(nm, changes, k - 1), changes[k][1], changes[k][2])

remove_all(nm, ids) == [k \in DOMAIN nm \ ids |-> nm[k]]

(* Lines 72-119, the buckets visited in the order `order`. *)
merge_io(nm, order) ==
    LET changes == changed_nodes(nm, order, Len(order))
    IN  insert_all(remove_all(nm, merged_io_ids_to_remove(order, Len(order))),
                   changes, Len(changes))

(* The orders in which a HashMap may hand out the buckets. *)
Orders(S) == {o \in [1..Cardinality(S) -> S] : \A i, j \in DOMAIN o : i # j => o[i] # o[j]}

(* Lines 125-140 and 144-167 work on node_map in place; get_mut(..).unwrap() *)
(* and remove(..).unwrap() panic when the id is absent.  A pass state is    *)
(* [nm, panic].                                                             *)
Panic(st) == [st EXCEPT !.panic = TRUE]

(* The inner loop over the removed node's `to`: lines 135-138, 162-165. *)
RECURSIVE replace_in_end_nodes(_, _, _, _, _)
replace_in_end_nodes(st, ends, k, index, start_node_index) ==
    IF k = 0 THEN st
    ELSE LET s == replace_in_end_nodes(st, ends, k - 1, index, start_node_index)
         IN  IF s.panic THEN s
             ELSE IF ends[k] \notin DOMAIN s.nm THEN Panic(s)
             ELSE [s EXCEPT !.nm = Insert(s.nm, ends[k],
                        replace_from(s.nm[ends[k]], index, start_node_index))]

(* The outer loop over the removed node's `from`: lines 130-139, 156-166.  *)
(* The Fragment pass passes attributes = None, for which add_attributes    *)
(* changes nothing (the Fragment loop does not call it).                   *)
RECURSIVE move_edges(_, _, _, _, _)
move_edges(st, node, k, index, attributes) ==
    IF k = 0 THEN st
    ELSE LET s == move_edges(st, node, k - 1, index, attributes)
             start_node_index == node.from[k]
         IN  IF s.panic THEN s
             ELSE IF start_node_index \notin DOMAIN s.nm THEN Panic(s)
             ELSE replace_in_end_nodes(
                    [s EXCEPT !.nm = Insert(s.nm, start_node_index,
                        add_attributes(
                            change_to_ids(s.nm[start_node_index], node.to, index),
                            attributes))],
                    node.to, Len(node.to), index, start_node_index)

remove_operator_not_removed(st, index, is_projection) ==
    IF st.panic THEN st
    ELSE IF index \notin DOMAIN st.nm THEN Panic(st)
    ELSE move_edges(st, st.nm[index], Len(st.nm[index].from), index,
                    IF is_projection
                    THEN Some(st.nm[index].operator.projection_attributes)
                    ELSE None)

remove_operator(st, index, is_projection) ==
    IF st.panic THEN st
    ELSE IF index \notin DOMAIN st.nm THEN Panic(st)
    ELSE move_edges([st EXCEPT !.nm = Remove(st.nm, index)], st.nm[index],
                    Len(st.nm[index].from), index,
                    IF is_projection
                    THEN Some(st.nm[index].operator.projection_attributes)
                    ELSE None)

(* Lines 125-140 (Fragments) and 144-167 (Projections). *)
RECURSIVE remove_operators(_, _, _, _)
remove_operators(st, indices, k, is_projection) ==
    IF k = 0 THEN st
    ELSE remove_operator(remove_operators(st, indices, k - 1, is_projection),
                         indices[k], is_projection)

(* Lines 173-195.  node_map is only read in this loop. *)
is_self_join(nm, join_index) == nm[join_index].from[1] = nm[join_index].from[2]

self_join_panics(nm, join_index) ==
    \/ join_index \notin DOMAIN nm
    \/ Len(nm[join_index].from) < 2
    \/ /\ is_self_join(nm, join_index)
       /\ \/ \E k \in DOMAIN nm[join_index].to : nm[join_index].to[k] \notin DOMAIN nm
          \/ nm[join_index].from[1] \notin DOMAIN nm

self_join_changes(nm, join_index) ==
    LET join_node == nm[join_index]
    IN  [k \in DOMAIN join_node.to |->
            <<join_node.to[k],
              [replace_from(nm[join_node.to[k]], join_index, join_node.from[1])
                  EXCEPT !.join_alias = Some(join_node.operator.join_alias)]>>]
        \o << <<join_node.from[1],
                change_to_ids(nm[join_node.from[1]], join_node.to, join_index)>> >>

RECURSIVE changed_join_connected_nodes(_, _, _)
changed_join_connected_nodes(nm, joins, k) ==
    IF k = 0 THEN <<>>
    ELSE changed_join_connected_nodes(nm, joins, k - 1)
         \o (IF is_self_join(nm, joins[k]) THEN self_join_changes(nm, joins[k]) ELSE <<>>)

self_join_nodes_to_remove(nm, joins) ==
    {joins[k] : k \in {i \in DOMAIN joins : is_self_join(nm, joins[i])}}

(* Lines 169-204: first the updates are inserted, then the joins removed. *)
remove_self_joins(nm, joins) ==
    LET changes == changed_join_connected_nodes(nm, joins, Len(joins))
    IN  remove_all(insert_all(nm, changes, Len(changes)),
                   self_join_nodes_to_remove(nm, joins))

----------------------------------------------------------------------------
(* ---- rewrite as a state machine: one action per pass ---- *)
RewriteInit ==
    /\ IsInputPlan(plan)
    /\ to_one_target \in BOOLEAN
    /\ node_map = <<>>
    /\ rpc = "classify"

ClassifyAndIndex ==
    /\ rpc = "classify"
    /\ node_map' = initial_node_map(plan)
    /\ rpc' = "merge"
    /\ UNCHANGED <<plan, to_one_target, outsideRewrite>>

MergeIO ==
    /\ rpc = "merge"
    /\ \E order \in Orders(same_io_buckets(plan, to_one_target)) :
            node_map' = merge_io(node_map, order)
    /\ rpc' = "fragments"
    /\ UNCHANGED <<plan, to_one_target, outsideRewrite>>

RemoveFragments ==
    /\ rpc = "fragments"
    /\ LET st == remove_operators([nm |-> node_map, panic |-> FALSE],
                                  fragment_indices(plan),
                                  Len(fragment_indices(plan)), FALSE)
       IN  /\ node_map' = st.nm
           /\ rpc' = IF st.panic THEN "panic" ELSE "projections"
    /\ UNCHANGED <<plan, to_one_target, outsideRewrite>>

RemoveProjections ==
    /\ rpc = "projections"
    /\ LET st == remove_operators([nm |-> node_map, panic |-> FALSE],
                                  projection_indices(plan),
                                  Len(projection_indices(plan)), TRUE)
       IN  /\ node_map' = st.nm
           /\ rpc' = IF st.panic THEN "panic" ELSE "self_joins"
    /\ UNCHANGED <<plan, to_one_target, outsideRewrite>>

RemoveSelfJoins ==
    /\ rpc = "self_joins"
    /\ IF \E k \in DOMAIN join_indices(plan) :
              self_join_panics(node_map, join_indices(plan)[k])
       THEN /\ rpc' = "panic"
            /\ UNCHANGED node_map
       ELSE /\ node_map' = remove_self_joins(node_map, join_indices(plan))
            /\ rpc' = "done"
    /\ UNCHANGED <<plan, to_one_target, outsideRewrite>>

RewriteNext ==
    \/ ClassifyAndIndex
    \/ MergeIO
    \/ RemoveFragments
    \/ RemoveProjections
    \/ RemoveSelfJoins

(* The node map rewrite returned. *)
Rewritten == rpc = "done"

Present(id) == id \in DOMAIN node_map
KindOf(id) == node_map[id].operator.kind
PlanKind(i) == plan.nodes[i].operator.kind

----------------------------------------------------------------------------
(* ---- operator/join.rs: one Join worker ---- *)
(* Positions and row numbers count from 1 here, from 0 in the source.      *)

(* Bounds of the enumerated join inputs: data tuples per side. *)
MaxRows == 2

(* JoinOperator's fields: node ids as strings (to_string). *)
join_node_id == "3"
left_node_id == "1"
right_node_id == "2"
right_node_attr_prefix == JoinAlias \o "_"

(* JoinData::new *)
JoinData(nr_join_attributes) ==
    [join_attr_positions |-> <<>>,
     data |-> <<>>,
     join_attr_indices |-> [i \in 1..nr_join_attributes |-> <<>>]]

(* JoinData::set_join_attribute_positions *)
set_join_attribute_positions(jd, join_attribute_positions) ==
    [jd EXCEPT !.join_attr_positions = @ \o join_attribute_positions]

(* The values of a row at the join positions, in column order (add's filter). *)
join_attr_values(jd, data) ==
    LET kept == SelectSeq([p \in DOMAIN data |-> p],
                          LAMBDA p : p \in Range(jd.join_attr_positions))
    IN  [i \in DOMAIN kept |-> data[kept[i]]]

(* HashMap<String, Vec<usize>>: push row_nr on the vector of `value`       *)
(* (lines 241-249).                                                        *)
index_push_fresh_vec(attr_index_map, value, row_nr) ==
    [v \in DOMAIN attr_index_map \cup {value} |->
        IF v = value THEN <<row_nr>> ELSE attr_index_map[v]]

index_push(attr_index_map, value, row_nr) ==
    [v \in DOMAIN attr_index_map \cup {value} |->
        IF v = value
        THEN (IF value \in DOMAIN attr_index_map THEN attr_index_map[value] ELSE <<>>)
             \o <<row_nr>>
        ELSE attr_index_map[v]]

(* JoinData::add: the record is appended and indexed; join_attr_values is  *)
(* what it returns.                                                        *)
add(jd, data) ==
    LET values == join_attr_values(jd, data)
        data_row_nr == Len(jd.data) + 1
    IN  [jd EXCEPT
            !.data = Append(@, data),
            !.join_attr_indices =
                [i \in DOMAIN @ |->
                    IF i \in DOMAIN values
                    THEN index_push(@[i], values[i], data_row_nr)
                    ELSE @[i]]]

(* JoinData::return_values_if_match: Option<Vec<&Vec<String>>> *)
return_values_if_match(jd, values) ==
    IF \E position \in DOMAIN values :
            values[position] \notin DOMAIN jd.join_attr_indices[position]
    THEN None
    ELSE LET result ==
                SelectSeq(jd.join_attr_indices[1][values[1]],
                    LAMBDA index :
                        \A position \in 2..Len(values) :
                            index \in Range(jd.join_attr_indices[position][values[position]]))
         IN  IF result = <<>> THEN None
             ELSE Some([k \in DOMAIN result |-> jd.data[result[k]]])

(* process_data_for_one_join_side: the record is added to its own side and *)
(* the other side is probed with its join values.                          *)
process_data_for_one_join_side(data, join_data, other_join_data) ==
    [join_data |-> add(join_data, data),
     join_result_option |->
        return_values_if_match(other_join_data, join_attr_values(join_data, data))]

(* The names of one side of the attribute pairs. *)
left_names(pairs) == {pairs[i][1] : i \in DOMAIN pairs}
right_names(pairs) == {pairs[i][2] : i \in DOMAIN pairs}

(* The positions of the header names that are join attributes. *)
attribute_indices(real_data, join_attribute_names) ==
    SelectSeq([p \in DOMAIN real_data |-> p],
              LAMBDA p : real_data[p] \in join_attribute_names)

(* Line 133: format!("{}{}", self.right_node_attr_prefix, name) *)
prefixed_without_alias(name) == name

prefixed(name) == right_node_attr_prefix \o name

(* What the worker sends, tagged with the place that sent it:              *)
(* "header" for lines 96-102 / 142-148, "data" for lines 111-117 / 156-162.*)
Sent(kind, tuple) == [kind |-> kind, tuple |-> tuple]

(* The locals of the worker thread, lines 62-70. *)
JoinLocals(nr) ==
    [left_attribute_names |-> <<>>,
     right_attribute_names |-> <<>>,
     left_join_attribute_indices |-> <<>>,
     right_join_attribute_indices |-> <<>>,
     left_join_data |-> JoinData(nr),
     right_join_data |-> JoinData(nr)]

(* Lines 77-120: one tuple of the left node.  The result is the new locals *)
(* and the tuples sent.                                                    *)
process_left(st, pairs, real_data) ==
    IF st.left_join_attribute_indices = <<>>
    THEN LET names == st.left_attribute_names \o real_data
             indices == attribute_indices(real_data, left_names(pairs))
             both == st.right_attribute_names # <<>>
         IN  [st |-> [st EXCEPT
                        !.left_attribute_names = IF both THEN <<>> ELSE names,
                        !.left_join_attribute_indices = indices,
                        !.left_join_data = set_join_attribute_positions(@, indices)],
              sent |-> IF both
                       THEN <<Sent("header",
                                <<join_node_id>> \o names \o st.right_attribute_names)>>
                       ELSE <<>>]
    ELSE LET side == process_data_for_one_join_side(real_data, st.left_join_data,
                                                    st.right_join_data)
             join_result_option == side.join_result_option
         IN  [st |-> [st EXCEPT !.left_join_data = side.join_data],
              sent |-> IF join_result_option = None THEN <<>>
                       ELSE [k \in DOMAIN join_result_option[1] |->
                                Sent("data", <<join_node_id>> \o real_data
                                             \o join_result_option[1][k])]]

(* Lines 122-165: one tuple of the right node. *)
process_right_new_first(st, pairs, real_data) ==
    IF st.right_join_attribute_indices = <<>>
    THEN LET names == st.right_attribute_names
                        \o [p \in DOMAIN real_data |-> prefixed(real_data[p])]
             indices == attribute_indices(real_data, right_names(pairs))
             both == st.left_attribute_names # <<>>
         IN  [st |-> [st EXCEPT
                        !.right_attribute_names = IF both THEN <<>> ELSE names,
                        !.right_join_attribute_indices = indices,
                        !.right_join_data = set_join_attribute_positions(@, indices)],
              sent |-> IF both
                       THEN <<Sent("header",
                                <<join_node_id>> \o st.left_attribute_names \o names)>>
                       ELSE <<>>]
    ELSE LET side == process_data_for_one_join_side(real_data, st.right_join_data,
                                                    st.left_join_data)
             join_result_option == side.join_result_option
         IN  [st |-> [st EXCEPT !.right_join_data = side.join_data],
              sent |-> IF join_result_option = None THEN <<>>
                       ELSE [k \in DOMAIN join_result_option[1] |->
                                Sent("data", <<join_node_id>> \o real_data
                                             \o join_result_option[1][k])]]

process_right(st, pairs, real_data) ==
    IF st.right_join_attribute_indices = <<>>
    THEN LET names == st.right_attribute_names
                        \o [p \in DOMAIN real_data |-> prefixed(real_data[p])]
             indices == attribute_indices(real_data, right_names(pairs))
             both == st.left_attribute_names # <<>>
         IN  [st |-> [st EXCEPT
                        !.right_attribute_names = IF both THEN <<>> ELSE names,
                        !.right_join_attribute_indices = indices,
                        !.right_join_data = set_join_attribute_positions(@, indices)],
              sent |-> IF both
                       THEN <<Sent("header",
                                <<join_node_id>> \o st.left_attribute_names \o names)>>
                       ELSE <<>>]
    ELSE LET side == process_data_for_one_join_side(real_data, st.right_join_data,
                                                    st.left_join_data)
             join_result_option == side.join_result_option
         IN  [st |-> [st EXCEPT !.right_join_data = side.join_data],
              sent |-> IF join_result_option = None THEN <<>>
                       ELSE [k \in DOMAIN join_result_option[1] |->
                                Sent("data", <<join_node_id>> \o join_result_option[1][k]
                                             \o real_data)]]

(* Lines 72-166: the body of the receive loop for one tuple. *)
process(st, pairs, data) ==
    IF Head(data) = left_node_id THEN process_left(st, pairs, Tail(data))
    ELSE IF Head(data) = right_node_id THEN process_right(st, pairs, Tail(data))
    ELSE [st |-> st, sent |-> <<>>]

(* ---- The enumerated inputs of the worker ---- *)
(* Each side's header names every join attribute of that side.  A side     *)
(* sends its header and then at most MaxRows data tuples, or nothing at    *)
(* all (a source that could not open its file).                            *)
JoinPairs == {<< <<"a", "c">> >>,
              << <<"a", "c">>, <<"b", "d">> >>,
              << <<"a", "c">>, <<"a", "d">> >>}
LeftHeaders == {<<"a", "b">>, <<"b", "a">>}
RightHeaders == {<<"c", "d">>, <<"d", "c">>}
Values == {"1", "2"}
Rows == {<<v, w>> : v \in Values, w \in Values}

RowSeqs == UNION {[1..n -> Rows] : n \in 0..MaxRows}

Stream(id, header, rows) ==
    <<<<id>> \o header>> \o [k \in DOMAIN rows |-> <<id>> \o rows[k]]

Streams(id, headers) ==
    {<<>>} \cup {Stream(id, h, rows) : h \in headers, rows \in RowSeqs}

JoinInit ==
    /\ join_op \in [left_right_join_attr_pairs : JoinPairs]
    /\ join_in \in [left : Streams(left_node_id, LeftHeaders),
                    right : Streams(right_node_id, RightHeaders)]
    /\ join_pos = [left |-> 0, right |-> 0]
    /\ join_st = JoinLocals(Len(join_op.left_right_join_attr_pairs))
    /\ join_out = <<>>
    /\ join_pc = "running"

(* The variables as they are while no Join worker is modelled. *)
JoinIdle ==
    /\ join_op = [left_right_join_attr_pairs |-> <<>>]
    /\ join_in = [left |-> <<>>, right |-> <<>>]
    /\ join_pos = [left |-> 0, right |-> 0]
    /\ join_st = JoinLocals(0)
    /\ join_out = <<>>
    /\ join_pc = "exited"

(* rx_chan.iter() hands out the next tuple: both upstreams send into the   *)
(* one channel, so the next tuple is the next of either side.              *)
JoinReceive(side) ==
    /\ join_pc = "running"
    /\ join_pos[side] < Len(join_in[side])
    /\ LET r == process(join_st, join_op.left_right_join_attr_pairs,
                        join_in[side][join_pos[side] + 1])
       IN  /\ join_st' = r.st
           /\ join_out' = join_out \o r.sent
    /\ join_pos' = [join_pos EXCEPT ![side] = @ + 1]
    /\ UNCHANGED <<join_op, join_in, join_pc, outsideJoin>>

JoinReceiveLeft == JoinReceive("left")
JoinReceiveRight == JoinReceive("right")

(* Both senders are dropped and the channel is empty: the loop ends and    *)
(* the thread returns (0, "").                                             *)
JoinExit ==
    /\ join_pc = "running"
    /\ join_pos.left = Len(join_in.left)
    /\ join_pos.right = Len(join_in.right)
    /\ join_pc' = "exited"
    /\ UNCHANGED <<join_op, join_in, join_pos, join_st, join_out, outsideJoin>>

JoinNext ==
    \/ JoinReceiveLeft
    \/ JoinReceiveRight
    \/ JoinExit

----------------------------------------------------------------------------
(* ---- operator/extension.rs: one Extend worker ---- *)
ext_node_id == "4"

(* Function descriptions, as get_function turns them into functions.  A    *)
(* template is held as its parsed parts (is_variable, text).               *)
Constant(value) == [kind |-> "Constant", value |-> value]
Reference(value) == [kind |-> "Reference", value |-> value]
TemplateString(parts) == [kind |-> "TemplateString", value |-> parts]
Iri(inner_function) == [kind |-> "Iri", value |-> inner_function]
Literal(inner_function) == [kind |-> "Literal", value |-> inner_function]

(* BasicFunction::get_result_type: "str" unless overridden. *)
get_result_type(function) ==
    CASE function.kind = "Iri" -> "iri"
      [] function.kind = "Literal" -> "lit"
      [] OTHER -> "str"

(* PctString::encode(value.chars(), IriReserved::Segment) on the model's   *)
(* alphabet: letters, digits and ':', '/' ... are kept but for the space.  *)
RECURSIVE PctEncode(_)
PctEncode(s) ==
    IF Len(s) = 0 THEN ""
    ELSE (IF SubSeq(s, 1, 1) = " " THEN "%20" ELSE SubSeq(s, 1, 1))
         \o PctEncode(SubSeq(s, 2, Len(s)))

(* iri_reference::<UriSpec> on the model's alphabet: a space is not allowed.*)
valid_iri_check(s) == \A i \in 1..Len(s) : SubSeq(s, i, i) # " "

(* ReferenceFunction::variable_names: the first position of the name, the  *)
(* initial index 0 (here 1) when the name is absent.                       *)
reference_index_without_break(variable_name, variable_names) ==
    IF \E i \in DOMAIN variable_names : variable_names[i] = variable_name
    THEN CHOOSE i \in DOMAIN variable_names :
            /\ variable_names[i] = variable_name
            /\ \A j \in (i + 1)..Len(variable_names) : variable_names[j] # variable_name
    ELSE 1

reference_index(variable_name, variable_names) ==
    IF \E i \in DOMAIN variable_names : variable_names[i] = variable_name
    THEN CHOOSE i \in DOMAIN variable_names :
            /\ variable_names[i] = variable_name
            /\ \A j \in 1..(i - 1) : variable_names[j] # variable_name
    ELSE 1

(* TemplateStrFunction::exec's variable_name_to_value_map: a later column  *)
(* of the same name overwrites an earlier one.                             *)
template_value(part, variable_names, input) ==
    input[CHOOSE i \in DOMAIN input :
            /\ variable_names[i] = part
            /\ \A j \in (i + 1)..Len(input) : variable_names[j] # part]

RECURSIVE template_result(_, _, _)
template_result(parts, variable_names, input) ==
    IF parts = <<>> THEN ""
    ELSE (IF Head(parts)[1]
          THEN PctEncode(template_value(Head(parts)[2], variable_names, input))
          ELSE Head(parts)[2])
         \o template_result(Tail(parts), variable_names, input)

(* BasicFunction::exec panics: an index out of the input (reference.rs:45, *)
(* template_string.rs:45) or a template variable that no column has        *)
(* (template_string.rs:54).                                                *)
RECURSIVE exec_panics(_, _, _)
exec_panics(function, variable_names, input) ==
    CASE function.kind = "Reference" ->
            reference_index(function.value, variable_names) > Len(input)
      [] function.kind = "TemplateString" ->
            \/ Len(input) > Len(variable_names)
            \/ \E k \in DOMAIN function.value :
                /\ function.value[k][1]
                /\ \A i \in DOMAIN input : variable_names[i] # function.value[k][2]
      [] function.kind \in {"Iri", "Literal"} ->
            exec_panics(function.value, variable_names, input)
      [] OTHER -> FALSE

(* BasicFunction::exec: Vec<String> *)
RECURSIVE exec(_, _, _)
exec(function, variable_names, input) ==
    CASE function.kind = "Constant" -> <<function.value>>
      [] function.kind = "Reference" ->
            <<input[reference_index(function.value, variable_names)]>>
      [] function.kind = "TemplateString" ->
            <<template_result(function.value, variable_names, input)>>
      [] function.kind = "Iri" ->
            LET output == exec(function.value, variable_names, input)
            IN  [k \in DOMAIN output |->
                    IF valid_iri_check(output[k]) THEN output[k] ELSE "INVALID"]
      [] function.kind = "Literal" -> exec(function.value, variable_names, input)

(* Flattening a sequence of vectors (Iterator::flatten). *)
RECURSIVE flatten(_)
flatten(vectors) ==
    IF vectors = <<>> THEN <<>> ELSE Head(vectors) \o flatten(Tail(vectors))

minus_first_char(name) == SubSeq(name, 2, Len(name))

(* Lines 68-74 and 79-84. *)
node_id_plus_function_names(node_id, functions) ==
    <<node_id>> \o [i \in DOMAIN functions |-> minus_first_char(functions[i].name)]

node_id_plus_result_types_reversed(node_id, functions) ==
    <<node_id>> \o [i \in DOMAIN functions |->
        get_result_type(functions[Len(functions) + 1 - i].function)]

node_id_plus_result_types(node_id, functions) ==
    <<node_id>> \o [i \in DOMAIN functions |-> get_result_type(functions[i].function)]

(* Lines 99-121: the names bound into every function. *)
new_variable_names(join_alias, variable_names) ==
    IF join_alias # None
    THEN variable_names
         \o [i \in DOMAIN variable_names |-> join_alias[1] \o "_" \o variable_names[i]]
    ELSE variable_names

(* Lines 127-130. *)
data_to_process_once(join_alias, data) == data

data_to_process(join_alias, data) ==
    IF join_alias # None THEN data \o data ELSE data

(* Lines 133-138. *)
node_id_plus_result(node_id, functions, variable_names, input) ==
    <<node_id>>
    \o flatten([i \in DOMAIN functions |->
                    exec(functions[i].function, variable_names, input)])

(* ---- The enumerated inputs of the worker ---- *)
(* extend_pairs: output name (with its sigil) -> function description. *)
ExtendPairs ==
    { ("?s" :> Iri(TemplateString(<< <<FALSE, "http://e/">>, <<TRUE, "a">> >>)))
        @@ ("?o" :> Literal(Reference("b"))),
      ("?s" :> Iri(Reference("j_a")))
        @@ ("?p" :> Constant("k"))
        @@ ("?o" :> Literal(TemplateString(<< <<TRUE, "j_b">> >>))),
      ("?s" :> Iri(Reference("b")))
        @@ ("?o" :> Literal(Reference("z"))) }

(* ExtendOperator::new: the functions in the iteration order of the        *)
(* HashMap extend_pairs, which is any order.                               *)
ExtendOperators ==
    UNION {{[functions |-> [i \in DOMAIN order |->
                            [name |-> order[i], function |-> pairs[order[i]]]],
             join_alias |-> alias] :
                order \in Orders(DOMAIN pairs), alias \in {None, Some(JoinAlias)}} :
           pairs \in ExtendPairs}

ExtValues == {"1", "x y"}
ExtRows == {<<left_node_id, v, w>> : v \in ExtValues, w \in ExtValues}
ExtStreams ==
    {<<>>} \cup {<<<<left_node_id, "a", "b">>>> \o rows :
                    rows \in UNION {[1..n -> ExtRows] : n \in 0..MaxRows}}

(* An upstream whose header holds the attribute b twice, as the header of  *)
(* a Join of two sources that both have an attribute b does.               *)
ExtDuplicateStreams ==
    {<<<<left_node_id, "b", "b">>>> \o rows :
        rows \in UNION {[1..n -> ExtRows] : n \in 1..MaxRows}}

ExtendInit ==
    /\ ext_op \in ExtendOperators
    /\ ext_in \in ExtStreams
                \cup (IF ext_op.join_alias = None THEN ExtDuplicateStreams ELSE {})
    /\ ext_pos = 0
    /\ ext_names = <<>>
    /\ ext_out = <<>>
    /\ ext_pc = "names"

(* The variables as they are while no Extend worker is modelled. *)
ExtendIdle ==
    /\ ext_op = [functions |-> <<>>, join_alias |-> None]
    /\ ext_in = <<>>
    /\ ext_pos = 0
    /\ ext_names = <<>>
    /\ ext_out = <<>>
    /\ ext_pc = "exited"

(* Lines 68-76. *)
ExtendSendNames ==
    /\ ext_pc = "names"
    /\ ext_out' = Append(ext_out, node_id_plus_function_names(ext_node_id, ext_op.functions))
    /\ ext_pc' = "types"
    /\ UNCHANGED <<ext_op, ext_in, ext_pos, ext_names, outsideExtend>>

(* Lines 79-86. *)
ExtendSendTypes ==
    /\ ext_pc = "types"
    /\ ext_out' = Append(ext_out, node_id_plus_result_types(ext_node_id, ext_op.functions))
    /\ ext_pc' = "header"
    /\ UNCHANGED <<ext_op, ext_in, ext_pos, ext_names, outsideExtend>>

(* Lines 90-122: iter.next() is the upstream's header, or nothing when the *)
(* upstream closed the channel without sending.                            *)
ExtendReadHeader ==
    /\ ext_pc = "header"
    /\ IF ext_in # <<>>
       THEN /\ ext_names' = new_variable_names(ext_op.join_alias, ext_in[1])
            /\ ext_pos' = 1
       ELSE UNCHANGED <<ext_names, ext_pos>>
    /\ ext_pc' = "data"
    /\ UNCHANGED <<ext_op, ext_in, ext_out, outsideExtend>>

(* Lines 125-142: one data tuple; a panic of a function ends the thread. *)
ExtendProcessData ==
    /\ ext_pc = "data"
    /\ ext_pos < Len(ext_in)
    /\ LET input == data_to_process(ext_op.join_alias, ext_in[ext_pos + 1])
       IN  IF \E i \in DOMAIN ext_op.functions :
                exec_panics(ext_op.functions[i].function, ext_names, input)
           THEN /\ ext_pc' = "panicked"
                /\ UNCHANGED ext_out
           ELSE /\ ext_out' = Append(ext_out,
                        node_id_plus_result(ext_node_id, ext_op.functions,
                                            ext_names, input))
                /\ UNCHANGED ext_pc
    /\ ext_pos' = ext_pos + 1
    /\ UNCHANGED <<ext_op, ext_in, ext_names, outsideExtend>>

(* Line 144: the channel is closed and empty, the thread returns (0, ""). *)
ExtendExit ==
    /\ ext_pc = "data"
    /\ ext_pos = Len(ext_in)
    /\ ext_pc' = "exited"
    /\ UNCHANGED <<ext_op, ext_in, ext_pos, ext_names, ext_out, outsideExtend>>

ExtendNext ==
    \/ ExtendSendNames
    \/ ExtendSendTypes
    \/ ExtendReadHeader
    \/ ExtendProcessData
    \/ ExtendExit

----------------------------------------------------------------------------
(* ---- lib.rs: the driver `start` and the workers it runs ---- *)

(* rewrite (plan_rewriter.rs:30-210) as one function: the five passes in   *)
(* order, for the bucket order the HashMap hands out.  Only called on      *)
(* plans on which no pass panics.                                          *)
rewrite(p, one_target, order) ==
    LET merged == merge_io(initial_node_map(p), order)
        no_fragments == remove_operators([nm |-> merged, panic |-> FALSE],
                            fragment_indices(p), Len(fragment_indices(p)), FALSE)
        no_projections == remove_operators(no_fragments,
                            projection_indices(p), Len(projection_indices(p)), TRUE)
    IN  remove_self_joins(no_projections.nm, join_indices(p))

(* Bounds of the enumerated runs: the data records of a source file, and   *)
(* the largest message_buffer_capacity.                                    *)
MaxRecords == 1
MaxCapacity == 2

(* The input plans of the enumerated runs: a chain, a join of two sources  *)
(* written to a sink, and a chain of self-joins whose last join is joined  *)
(* with the source.                                                        *)
RunPlans ==
    { PlanGraph(<<Op("Source", 1, {}, ""), Op("Extend", 0, {}, ""),
                  Op("Serialize", 0, {}, ""), Op("Target", 1, {}, "")>>,
                << <<>>, <<1>>, <<2>>, <<3>> >>),
      PlanGraph(<<Op("Source", 1, {}, ""), Op("Source", 2, {}, ""),
                  Op("Join", 0, {}, JoinAlias), Op("Target", 1, {}, "")>>,
                << <<>>, <<>>, <<1, 2>>, <<3>> >>),
      PlanGraph(<<Op("Source", 1, {}, ""), Op("Join", 0, {}, JoinAlias),
                  Op("Join", 0, {}, JoinAlias), Op("Join", 0, {}, JoinAlias),
                  Op("Extend", 0, {}, ""), Op("Serialize", 0, {}, ""),
                  Op("Target", 1, {}, "")>>,
                << <<>>, <<1, 1>>, <<2, 2>>, <<3, 1>>, <<4>>, <<5>>, <<6>> >>) }

(* Worker positions. *)
Live == {"open", "loop", "send"}

NewWorker == [pc |-> "none", tx |-> <<>>, todo |-> <<>>, remaining |-> 0,
              seen |-> 0, code |-> 0, msg |-> ""]

RunKind(id) == run_plan[id].operator.kind

(* Lines 82-101: one channel per node with a non-empty `from`, named here  *)
(* by that node's id; a clone of its sender is pushed on the sender list   *)
(* of every id in the node's `from`.  `order` is the order in which the    *)
(* HashMap hands out the nodes.                                            *)
RECURSIVE senders_of(_, _, _, _)
senders_of(nm, order, k, from_node_id) ==
    IF k = 0 THEN <<>>
    ELSE senders_of(nm, order, k - 1, from_node_id)
         \o [i \in DOMAIN SelectSeq(nm[order[k]].from, LAMBDA f : f = from_node_id)
                |-> order[k]]

new_sender_map(nm, order) ==
    [from_node_id \in UNION {Range(nm[id].from) : id \in DOMAIN nm} |->
        senders_of(nm, order, Len(order), from_node_id)]

new_receiver_map(nm) == {id \in DOMAIN nm : nm[id].from # <<>>}

(* A sender of channel c is alive: in the driver's sender_map, which lives *)
(* until start returns or unwinds, or in the tx_channels of a live worker. *)
SenderAlive(c) ==
    \/ /\ driver.pc \in {"spawn", "join"}
       /\ \E id \in DOMAIN driver.sender_map : c \in Range(driver.sender_map[id])
    \/ \E w \in DOMAIN workers :
        workers[w].pc \in Live /\ c \in Range(workers[w].tx)

(* The receiver of channel c is alive: in the driver's receiver_map or in  *)
(* the live worker c.                                                      *)
ReceiverAlive(c) ==
    \/ driver.pc \in {"spawn", "join"} /\ c \in driver.receiver_map
    \/ workers[c].pc \in Live

(* Worker w's next channel operation is a receive. *)
AtRecv(w) ==
    /\ workers[w].pc = "loop"
    /\ RunKind(w) # "Source"
    /\ workers[w].remaining = 0

(* bounded(capacity): a send completes when the queue has room; with       *)
(* capacity 0 when the receiver is waiting in a receive.                   *)
CanSend(c) ==
    IF run_opts.message_buffer_capacity = 0
    THEN channels[c] = 0 /\ AtRecv(c)
    ELSE channels[c] < run_opts.message_buffer_capacity

RunInit ==
    /\ \E p \in RunPlans :
        run_plan = rewrite(p, FALSE, <<>>)
    /\ run_opts \in [message_buffer_capacity : 0..MaxCapacity,
                     records : 0..MaxRecords,
                     files : [{id \in DOMAIN run_plan : RunKind(id) = "Source"}
                                -> {"found", "missing", "unreadable"}]]
    /\ \E order \in Orders(DOMAIN run_plan) :
        driver = [pc |-> "spawn",
                  unvisited |-> DOMAIN run_plan,
                  sender_map |-> new_sender_map(run_plan, order),
                  receiver_map |-> new_receiver_map(run_plan),
                  join_handles |-> <<>>,
                  joined |-> 0,
                  errors |-> <<>>,
                  result |-> ""]
    /\ workers = [id \in DOMAIN run_plan |-> NewWorker]
    /\ channels = [id \in new_receiver_map(run_plan) |-> 0]

(* The variables as they are while no run is modelled. *)
RunIdle ==
    /\ run_plan = <<>>
    /\ run_opts = [message_buffer_capacity |-> 0, records |-> 0, files |-> <<>>]
    /\ driver = [pc |-> "returned", unvisited |-> {}, sender_map |-> <<>>,
                 receiver_map |-> {}, join_handles |-> <<>>, joined |-> 0,
                 errors |-> <<>>, result |-> "Ok"]
    /\ workers = <<>>
    /\ channels = <<>>

(* The driver after it started the worker of node id. *)
Spawned(id) ==
    [driver EXCEPT
        !.unvisited = @ \ {id},
        !.sender_map = Remove(@, id),
        !.receiver_map = @ \ {id},
        !.join_handles = Append(@, id),
        !.pc = IF driver.unvisited = {id} THEN "join" ELSE "spawn"]

(* start unwinds or returns: its locals, the two maps among them, drop. *)
Left(pc, result, errors) ==
    [driver EXCEPT !.pc = pc, !.result = result, !.errors = errors,
                   !.sender_map = <<>>, !.receiver_map = {}]

(* Lines 106-202: one turn of the loop that creates and starts a worker.   *)
(* A source whose file find_file does not find ends start with an error    *)
(* (129-133); remove(id).unwrap() panics for an id the map does not hold.  *)
DriverSpawn ==
    /\ driver.pc = "spawn"
    /\ \E id \in driver.unvisited :
        LET no_sender == id \notin DOMAIN driver.sender_map
            no_receiver == id \notin driver.receiver_map
            start_worker(pc, tx, remaining) ==
                /\ driver' = Spawned(id)
                /\ workers' = [workers EXCEPT ![id] =
                        [@ EXCEPT !.pc = pc, !.tx = tx, !.remaining = remaining]]
            panic == /\ driver' = Left("panicked", "", driver.errors)
                     /\ UNCHANGED workers
        IN  CASE RunKind(id) = "Source" ->
                    IF run_opts.files[id] = "missing"
                    THEN /\ driver' = Left("returned", "Err", <<<<1, "File not found">>>>)
                         /\ UNCHANGED workers
                    ELSE IF no_sender THEN panic
                    ELSE start_worker("open", driver.sender_map[id], 0)
              [] RunKind(id) = "Target" ->
                    IF no_receiver THEN panic ELSE start_worker("loop", <<>>, 0)
              [] OTHER ->
                    IF no_sender \/ no_receiver THEN panic
                    ELSE start_worker("loop", driver.sender_map[id],
                                      IF RunKind(id) = "Extend" THEN 2 ELSE 0)
    /\ UNCHANGED <<run_plan, run_opts, channels, outsideRun>>

(* Lines 206-213: join the next handle; join().unwrap() panics when the    *)
(* worker panicked.                                                        *)
DriverJoin ==
    /\ driver.pc = "join"
    /\ driver.joined < Len(driver.join_handles)
    /\ LET w == workers[driver.join_handles[driver.joined + 1]]
       IN  /\ w.pc \in {"exited", "panicked"}
           /\ driver' =
                IF w.pc = "panicked" THEN Left("panicked", "", driver.errors)
                ELSE [driver EXCEPT
                        !.joined = @ + 1,
                        !.errors = IF w.code > 0 THEN Append(@, <<w.code, w.msg>>)
                                   ELSE @]
    /\ UNCHANGED <<run_plan, run_opts, workers, channels, outsideRun>>

(* Lines 215-220. *)
DriverReturn ==
    /\ driver.pc = "join"
    /\ driver.joined = Len(driver.join_handles)
    /\ driver' = Left("returned", IF driver.errors = <<>> THEN "Ok" ELSE "Err",
                      driver.errors)
    /\ UNCHANGED <<run_plan, run_opts, workers, channels, outsideRun>>

(* A panic of start ends the process; until then every worker runs on. *)
Running(w) == driver.pc # "panicked" /\ w \in DOMAIN workers

(* csv_file.rs:57-63: the file does not open and the thread returns        *)
(* (1, "Cannot open ..."); otherwise the header and the records are sent.  *)
SourceOpen ==
    \E w \in DOMAIN workers :
        /\ Running(w)
        /\ workers[w].pc = "open"
        /\ workers' = [workers EXCEPT ![w] =
                IF run_opts.files[w] = "unreadable"
                THEN [@ EXCEPT !.pc = "exited", !.code = 1, !.msg = "Cannot open"]
                ELSE [@ EXCEPT !.pc = "loop", !.remaining = 1 + run_opts.records]]
        /\ UNCHANGED <<run_plan, run_opts, driver, channels, outsideRun>>

(* A tuple that comes from no received tuple: the header or a record of a  *)
(* source (csv_file.rs:74-110), the names or the types of an Extend        *)
(* (extension.rs:68-86).                                                   *)
WorkerProduce ==
    \E w \in DOMAIN workers :
        /\ Running(w)
        /\ workers[w].pc = "loop"
        /\ workers[w].remaining > 0
        /\ workers' = [workers EXCEPT ![w] =
                [@ EXCEPT !.remaining = @ - 1, !.todo = workers[w].tx, !.pc = "send"]]
        /\ UNCHANGED <<run_plan, run_opts, driver, channels, outsideRun>>

(* tx_chan.send(..).unwrap() on the next of tx_channels: it panics when    *)
(* the receiver is gone and waits while the channel has no room.           *)
WorkerSend ==
    \E w \in DOMAIN workers :
        /\ Running(w)
        /\ workers[w].pc = "send"
        /\ LET c == Head(workers[w].todo)
           IN  IF ~ReceiverAlive(c)
               THEN /\ workers' = [workers EXCEPT ![w] = [@ EXCEPT !.pc = "panicked"]]
                    /\ UNCHANGED channels
               ELSE /\ CanSend(c)
                    /\ channels' = [channels EXCEPT ![c] = @ + 1]
                    /\ workers' = [workers EXCEPT ![w] =
                            [@ EXCEPT !.todo = Tail(@),
                                      !.pc = IF Len(workers[w].todo) = 1
                                             THEN "loop" ELSE "send"]]
        /\ UNCHANGED <<run_plan, run_opts, driver, outsideRun>>

(* The tuples a worker sends for one received tuple: an Extend none for    *)
(* the header and one per data tuple (extension.rs:90-142), a Serialize    *)
(* none for the names and the types (serializer.rs:51-115), a Join the     *)
(* merged header or the matches, here none or one (join.rs:72-166), a      *)
(* sink none (writer_sink.rs:55-65).                                       *)
Outputs(kind, seen) ==
    CASE kind = "Extend" -> IF seen = 0 THEN {0} ELSE {1}
      [] kind = "Serialize" -> IF seen < 2 THEN {0} ELSE {1}
      [] kind = "Join" -> {0, 1}
      [] OTHER -> {0}

(* rx_chan.iter() hands out the next tuple. *)
WorkerRecv ==
    \E w \in DOMAIN workers :
        /\ Running(w)
        /\ AtRecv(w)
        /\ channels[w] > 0
        /\ channels' = [channels EXCEPT ![w] = @ - 1]
        /\ \E n \in Outputs(RunKind(w), workers[w].seen) :
            workers' = [workers EXCEPT ![w] =
                [@ EXCEPT !.seen = IF @ < 2 THEN @ + 1 ELSE @,
                          !.todo = IF n = 1 THEN workers[w].tx ELSE <<>>,
                          !.pc = IF n = 1 THEN "send" ELSE "loop"]]
        /\ UNCHANGED <<run_plan, run_opts, driver, outsideRun>>

(* The loop ends: a source is at the end of its file, another worker's     *)
(* channel is empty with every sender dropped.  The thread returns         *)
(* (0, "") and its receiver and senders drop.                              *)
WorkerExit ==
    \E w \in DOMAIN workers :
        /\ Running(w)
        /\ workers[w].pc = "loop"
        /\ workers[w].remaining = 0
        /\ RunKind(w) # "Source" => channels[w] = 0 /\ ~SenderAlive(w)
        /\ workers' = [workers EXCEPT ![w] = [@ EXCEPT !.pc = "exited"]]
        /\ UNCHANGED <<run_plan, run_opts, driver, channels, outsideRun>>

RunNext ==
    \/ DriverSpawn
    \/ DriverJoin
    \/ DriverReturn
    \/ SourceOpen
    \/ WorkerProduce
    \/ WorkerSend
    \/ WorkerRecv
    \/ WorkerExit

----------------------------------------------------------------------------
(* ---- serializer.rs: the Serialize operator ---- *)

(* create_template_template_string_parts, lines 125-127: the locals. *)
ScanLocals ==
    [template_string_parts |-> <<>>, current_str |-> "", is_variable_name |-> FALSE]

(* Lines 130-155: the closure for one character c. *)
scan_char(s, c) ==
    LET pushed(is_variable) ==
            IF s.current_str # ""
            THEN Append(s.template_string_parts, <<is_variable, s.current_str>>)
            ELSE s.template_string_parts
    IN  CASE c = "?" ->
                IF ~s.is_variable_name
                THEN [template_string_parts |-> pushed(FALSE),
                      current_str |-> "", is_variable_name |-> TRUE]
                ELSE s
          [] c = " " ->
                IF s.is_variable_name
                THEN [template_string_parts |-> pushed(TRUE),
                      current_str |-> " ", is_variable_name |-> FALSE]
                ELSE [s EXCEPT !.current_str = @ \o " "]
          [] OTHER -> [s EXCEPT !.current_str = @ \o c]

(* Lines 157-162: the last part, if any. *)
last_part(s) ==
    IF s.current_str # ""
    THEN Append(s.template_string_parts, <<FALSE, s.current_str>>)
    ELSE s.template_string_parts

(* Lines 124-163: the scan state after the first k characters. *)
RECURSIVE template_scan(_, _)
template_scan(template, k) ==
    IF k = 0 THEN ScanLocals
    ELSE scan_char(template_scan(template, k - 1), SubSeq(template, k, k))

create_template_template_string_parts(template) ==
    last_part(template_scan(template, Len(template)))

(* Lines 62-67: the column a variable name maps to; a later column of the  *)
(* same name overwrites an earlier one.  `payload` is values without the   *)
(* node id.                                                                *)
column_of(variable_names, payload, name) ==
    CHOOSE i \in DOMAIN payload :
        /\ variable_names[i] = name
        /\ \A j \in (i + 1)..Len(payload) : variable_names[j] # name

(* Lines 79-107. *)
value_str_as_value(value, data_type) == value

value_str(value, data_type) ==
    CASE data_type = "str" -> data_type
      [] data_type = "iri" -> "<" \o value \o ">"
      [] data_type = "lit" -> "\"" \o value \o "\""
      [] data_type = "blank" -> "_:" \o value

(* The thread panics: an index beyond the names or the types (64, 65), a   *)
(* variable of the template that no column has (74), a type that is not    *)
(* handled (105).                                                          *)
render_panics(parts, variable_names, data_types, payload) ==
    \/ Len(payload) > Len(variable_names)
    \/ Len(payload) > Len(data_types)
    \/ \E k \in DOMAIN parts :
        /\ parts[k][1]
        /\ \/ \A i \in DOMAIN payload : variable_names[i] # parts[k][2]
           \/ data_types[column_of(variable_names, payload, parts[k][2])]
                \notin {"str", "iri", "lit", "blank"}

(* Lines 69-112: result_str. *)
RECURSIVE result_str(_, _, _, _)
result_str(parts, variable_names, data_types, payload) ==
    IF parts = <<>> THEN ""
    ELSE (IF Head(parts)[1]
          THEN LET i == column_of(variable_names, payload, Head(parts)[2])
               IN  value_str(payload[i], data_types[i])
          ELSE Head(parts)[2])
         \o result_str(Tail(parts), variable_names, data_types, payload)

----------------------------------------------------------------------------
(* ---- source/csv_file.rs: the CSV file source ---- *)

(* Lines 78-88: the positions in the file's header of the attributes that  *)
(* it has, in the order of the attributes.                                 *)
position(headers, attribute) ==
    CHOOSE i \in DOMAIN headers :
        headers[i] = attribute /\ \A j \in 1..(i - 1) : headers[j] # attribute

csv_attribute_indices(headers, attributes) ==
    LET found == SelectSeq(attributes, LAMBDA a : a \in Range(headers))
    IN  [k \in DOMAIN found |-> position(headers, found[k])]

(* Lines 91-94. *)
node_id_plus_headers(node_id, attributes) == <<node_id>> \o attributes

(* Lines 102-108. *)
node_id_plus_data_without_node_id(node_id, indices, record) ==
    [k \in DOMAIN indices |-> record[indices[k]]]

node_id_plus_data(node_id, indices, record) ==
    <<node_id>> \o [k \in DOMAIN indices |-> record[indices[k]]]

----------------------------------------------------------------------------
(* ---- sink/writer_sink.rs: one WriterSink worker ---- *)
sink_node_id == "6"
serialize_node_id == "5"

(* Bound of the enumerated sink inputs: tuples received. *)
MaxTuples == 4

(* [String]::join(sep) *)
RECURSIVE join(_, _)
join(strings, sep) ==
    IF strings = <<>> THEN ""
    ELSE IF Len(strings) = 1 THEN strings[1]
    ELSE strings[1] \o sep \o join(Tail(strings), sep)

(* Lines 56-57: data[1..].join("\n") followed by '\n'. *)
data_to_write_with_node_id(data) == join(data, "\n") \o "\n"

data_to_write(data) == join(Tail(data), "\n") \o "\n"

(* Lines 48-53: the filter is a set when deduplicate is set. *)
new_dedup_filter(deduplicate) == IF deduplicate THEN Some({}) ELSE None

(* HashSet::insert (line 59): the new set and whether the value was new. *)
insert_without_storing(set, value) ==
    [set |-> set, inserted |-> value \notin set]

insert(set, value) ==
    [set |-> set \cup {value}, inserted |-> value \notin set]

(* ---- The enumerated inputs of the worker ---- *)
(* The upstream of a sink is a Serialize, which sends [node_id,            *)
(* result_str] (serializer.rs:114), or another node, whose tuples have     *)
(* more elements.                                                          *)
SinkLines == {"a", "b", "c"}
SinkTuples ==
    {<<serialize_node_id, line>> : line \in SinkLines}
        \cup {<<serialize_node_id, "a", "b">>}
SinkInputs == UNION {[1..n -> SinkTuples] : n \in 0..MaxTuples}

SinkInit ==
    /\ sink_deduplicate \in BOOLEAN
    /\ sink_in \in SinkInputs
    /\ sink_pos = 0
    /\ dedup_filter = None
    /\ sink_out = <<>>
    /\ sink_pc = "start"
    /\ sink_flushed = FALSE
    /\ sink_status = None

(* The variables as they are while no sink is modelled. *)
SinkIdle ==
    /\ sink_deduplicate = FALSE
    /\ sink_in = <<>>
    /\ sink_pos = 0
    /\ dedup_filter = None
    /\ sink_out = <<>>
    /\ sink_pc = "exited"
    /\ sink_flushed = TRUE
    /\ sink_status = Some(<<0, "">>)

(* Lines 48-53. *)
SinkStart ==
    /\ sink_pc = "start"
    /\ dedup_filter' = new_dedup_filter(sink_deduplicate)
    /\ sink_pc' = "loop"
    /\ UNCHANGED <<sink_deduplicate, sink_in, sink_pos, sink_out, sink_flushed,
                   sink_status, outsideSink>>

(* Lines 55-65: one tuple; sink_out is the sequence of the write_all       *)
(* arguments.                                                              *)
SinkReceive ==
    /\ sink_pc = "loop"
    /\ sink_pos < Len(sink_in)
    /\ LET text == data_to_write(sink_in[sink_pos + 1])
       IN  IF dedup_filter # None
           THEN LET r == insert(dedup_filter[1], text)
                IN  /\ dedup_filter' = Some(r.set)
                    /\ sink_out' = IF r.inserted THEN Append(sink_out, text)
                                   ELSE sink_out
           ELSE /\ sink_out' = Append(sink_out, text)
                /\ UNCHANGED dedup_filter
    /\ sink_pos' = sink_pos + 1
    /\ UNCHANGED <<sink_deduplicate, sink_in, sink_pc, sink_flushed, sink_status,
                   outsideSink>>

(* Lines 66-69: the channel is closed and empty; flush, return (0, ""). *)
SinkExit ==
    /\ sink_pc = "loop"
    /\ sink_pos = Len(sink_in)
    /\ sink_flushed' = TRUE
    /\ sink_status' = Some(<<0, "">>)
    /\ sink_pc' = "exited"
    /\ UNCHANGED <<sink_deduplicate, sink_in, sink_pos, dedup_filter, sink_out,
                   outsideSink>>

SinkNext ==
    \/ SinkStart
    \/ SinkReceive
    \/ SinkExit

----------------------------------------------------------------------------
(* ---- function/template_parser.rs: parse_template ---- *)

(* Bound of the enumerated templates: characters. *)
MaxTemplateLen == 5

(* str::starts_with *)
starts_with(s, prefix) ==
    Len(s) >= Len(prefix) /\ SubSeq(s, 1, Len(prefix)) = prefix

(* util.rs remove_join_alias_prefix: the slice [alias.len() + 1..] panics  *)
(* when it starts beyond the end of the name.                              *)
remove_join_alias_prefix_panics(variable_name, join_alias) ==
    /\ join_alias # None
    /\ starts_with(variable_name, join_alias[1])
    /\ Len(join_alias[1]) + 1 > Len(variable_name)

remove_join_alias_prefix(variable_name, join_alias) ==
    IF join_alias # None /\ starts_with(variable_name, join_alias[1])
    THEN SubSeq(variable_name, Len(join_alias[1]) + 2, Len(variable_name))
    ELSE variable_name

(* The locals of parse_template, lines 20-23. *)
ParseLocals ==
    [template_string_parts |-> <<>>, current_str |-> "",
     between_cb |-> FALSE, escape |-> FALSE]

(* Lines 29, 46, 64: the escaped character is pushed on current_str. *)
push_with_backslash(current_str, c) == current_str \o "\\" \o c

push_escaped(current_str, c) == current_str \o c

(* Lines 36-39 and 93-95: the accumulated text becomes a literal part. *)
push_literal_part_cleared(st) == [st EXCEPT !.current_str = ""]

push_literal_part(st) ==
    IF st.current_str # ""
    THEN [st EXCEPT !.template_string_parts = Append(@, <<FALSE, st.current_str>>),
                    !.current_str = ""]
    ELSE st

(* The outcome of the closure for one character: the new locals and        *)
(* "Ok", "Err" (return Err) or "panic".                                    *)
Step(st, outcome) == [st |-> st, outcome |-> outcome]

(* Lines 27-43. *)
on_open_cb(st) ==
    IF st.escape
    THEN Step([st EXCEPT !.current_str = push_escaped(@, "{"), !.escape = FALSE], "Ok")
    ELSE IF st.between_cb THEN Step(st, "Err")
    ELSE Step([push_literal_part(st) EXCEPT !.between_cb = TRUE], "Ok")

(* Lines 44-61. *)
on_close_cb(st, join_alias) ==
    IF st.escape
    THEN Step([st EXCEPT !.current_str = push_escaped(@, "}"), !.escape = FALSE], "Ok")
    ELSE IF ~st.between_cb THEN Step(st, "Err")
    ELSE IF st.current_str = "" THEN Step([st EXCEPT !.between_cb = FALSE], "Ok")
    ELSE IF remove_join_alias_prefix_panics(st.current_str, join_alias)
         THEN Step(st, "panic")
    ELSE Step([st EXCEPT
                !.template_string_parts =
                    Append(@, <<TRUE, remove_join_alias_prefix(st.current_str,
                                                               join_alias)>>),
                !.current_str = "",
                !.between_cb = FALSE], "Ok")

(* Lines 62-69. *)
on_backslash(st) ==
    IF st.escape
    THEN Step([st EXCEPT !.current_str = push_escaped(@, "\\"), !.escape = FALSE], "Ok")
    ELSE Step([st EXCEPT !.escape = TRUE], "Ok")

(* Lines 70-76. *)
on_other(st, c) ==
    IF st.escape THEN Step(st, "Err")
    ELSE Step([st EXCEPT !.current_str = @ \o c], "Ok")

(* Lines 83-97: after the last character. *)
at_end(st) ==
    IF st.between_cb \/ st.escape THEN [kind |-> "Err", parts |-> <<>>]
    ELSE [kind |-> "Ok", parts |-> push_literal_part(st).template_string_parts]

(* ---- The enumerated inputs ---- *)
TemplateChars == {"{", "}", "\\", "a", "j", "_"}

RECURSIVE TemplatesUpTo(_)
TemplatesUpTo(n) ==
    IF n = 0 THEN {""}
    ELSE LET shorter == TemplatesUpTo(n - 1)
         IN  shorter \cup {t \o c : t \in shorter, c \in TemplateChars}

CharAt(s, i) == SubSeq(s, i, i)

ParseInit ==
    /\ tpl_template \in TemplatesUpTo(MaxTemplateLen)
    /\ tpl_join_alias \in {None, Some(JoinAlias)}
    /\ tpl_pos = 0
    /\ tpl_st = ParseLocals
    /\ tpl_result = [kind |-> "none", parts |-> <<>>]

(* The variables as they are while no template is parsed. *)
ParseIdle ==
    /\ tpl_template = ""
    /\ tpl_join_alias = None
    /\ tpl_pos = 0
    /\ tpl_st = ParseLocals
    /\ tpl_result = [kind |-> "Ok", parts |-> <<>>]

(* The closure of try_for_each for the next character, which is `chars`.   *)
ParseChar(chars, step(_)) ==
    /\ tpl_result.kind = "none"
    /\ tpl_pos < Len(tpl_template)
    /\ CharAt(tpl_template, tpl_pos + 1) \in chars
    /\ LET r == step(tpl_st)
       IN  /\ tpl_st' = r.st
           /\ tpl_result' = IF r.outcome = "Ok" THEN tpl_result
                            ELSE [kind |-> r.outcome, parts |-> <<>>]
    /\ tpl_pos' = tpl_pos + 1
    /\ UNCHANGED <<tpl_template, tpl_join_alias, outsideParse>>

ParseOpenCb == ParseChar({"{"}, on_open_cb)
ParseCloseCb == ParseChar({"}"}, LAMBDA st : on_close_cb(st, tpl_join_alias))
ParseBackslash == ParseChar({"\\"}, on_backslash)
ParseOther ==
    ParseChar(TemplateChars \ {"{", "}", "\\"},
              LAMBDA st : on_other(st, CharAt(tpl_template, tpl_pos + 1)))

(* Lines 83-97. *)
ParseEnd ==
    /\ tpl_result.kind = "none"
    /\ tpl_pos = Len(tpl_template)
    /\ tpl_result' = at_end(tpl_st)
    /\ UNCHANGED <<tpl_template, tpl_join_alias, tpl_pos, tpl_st, outsideParse>>

ParseNext ==
    \/ ParseOpenCb
    \/ ParseCloseCb
    \/ ParseBackslash
    \/ ParseOther
    \/ ParseEnd

----------------------------------------------------------------------------
(* ---- serializer.rs: one call of create_template_template_string_parts ---- *)

(* Bound of the enumerated Serialize templates: characters. *)
MaxScanLen == 4

ScanChars == {"?", " ", "s", ">"}

RECURSIVE ScanTemplatesUpTo(_)
ScanTemplatesUpTo(n) ==
    IF n = 0 THEN {""}
    ELSE LET shorter == ScanTemplatesUpTo(n - 1)
         IN  shorter \cup {t \o c : t \in shorter, c \in ScanChars}

ScanInit ==
    /\ scan_template \in ScanTemplatesUpTo(MaxScanLen)
    /\ scan_pos = 0
    /\ scan_st = ScanLocals
    /\ scan_result = None

(* The variables as they are while no Serialize template is scanned. *)
ScanIdle ==
    /\ scan_template = ""
    /\ scan_pos = 0
    /\ scan_st = ScanLocals
    /\ scan_result = Some(<<>>)

(* template.chars().for_each: the next character. *)
ScanChar ==
    /\ scan_result = None
    /\ scan_pos < Len(scan_template)
    /\ scan_st' = scan_char(scan_st, CharAt(scan_template, scan_pos + 1))
    /\ scan_pos' = scan_pos + 1
    /\ UNCHANGED <<scan_template, scan_result, outsideScan>>

(* Lines 157-162: the template is at its end and the parts are returned. *)
ScanReturn ==
    /\ scan_result = None
    /\ scan_pos = Len(scan_template)
    /\ scan_result' = Some(last_part(scan_st))
    /\ UNCHANGED <<scan_template, scan_pos, scan_st, outsideScan>>

ScanNext ==
    \/ ScanChar
    \/ ScanReturn

----------------------------------------------------------------------------
(* ---- lib.rs and the workers: runs with the tuples that are exchanged ---- *)

(* mopper_options.rs:17-38, the options start reads but for the channel    *)
(* capacity and the working directory.                                     *)
MopperOptions(force_to_std_out, force_to_file) ==
    [force_to_std_out |-> force_to_std_out, force_to_file |-> force_to_file]

(* lib.rs:71-72 *)
to_one_target_of(options) ==
    options.force_to_std_out \/ options.force_to_file # None

(* lib.rs:157-184: what the sink of a Target writes to, the standard       *)
(* output or the file of that path; a target type other than StdOut that   *)
(* is not overridden ends start in todo!().                                *)
writer_file_first(options, config) ==
    IF options.force_to_file # None THEN options.force_to_file[1]
    ELSE IF options.force_to_std_out THEN "stdout"
    ELSE IF config = "stdout" THEN "stdout"
    ELSE "todo!()"

writer(options, config) ==
    IF options.force_to_std_out THEN "stdout"
    ELSE IF options.force_to_file # None THEN options.force_to_file[1]
    ELSE IF config = "stdout" THEN "stdout"
    ELSE "todo!()"

(* A mapping plan as deserialized: `attributes[i]` is the attributes field *)
(* of node i (plan.rs:33-40).  The configuration of a source is its path,  *)
(* of an Extend its extend_pairs, of a Serialize its template, of a Join   *)
(* its attribute pairs.                                                    *)
MappingPlan(ops, froms, attributes) ==
    LET p == PlanGraph(ops, froms)
    IN  [p EXCEPT !.nodes =
            [i \in DOMAIN p.nodes |-> [p.nodes[i] EXCEPT !.attributes = attributes[i]]]]

(* A file that find_file finds: whether File::open succeeds, and its       *)
(* records, the header record first.                                       *)
CsvFile(state, records) == [state |-> state, records |-> records]

PeopleCsv == CsvFile("found", << <<"id", "name">>, <<"1", "Alice">>, <<"2", "Bob">> >>)
OneRowCsv == CsvFile("found", << <<"id", "name">>, <<"x", "y">> >>)
LeftCsv == CsvFile("found", << <<"a", "b">>, <<"1", "A">> >>)
RightCsv == CsvFile("found", << <<"c", "d">>, <<"1", "X">> >>)
LockedCsv == CsvFile("unreadable", <<>>)

PersonTemplate == TemplateString(<< <<FALSE, "http://ex/person/">>, <<TRUE, "id">> >>)

(* The single-source plan: a CSV source, an                                *)
(* Extend with a subject, a predicate and an object, a Serialize template  *)
(* and the standard output.                                                *)
PeoplePlan(file, predicate, template) ==
    [plan |-> MappingPlan(
        <<Op("Source", "people.csv", {}, ""),
          Op("Extend", ("?s" :> Iri(PersonTemplate)) @@ ("?p" :> predicate)
                       @@ ("?o" :> Literal(Reference("name"))), {}, ""),
          Op("Serialize", template, {}, ""),
          Op("Target", "stdout", {}, "")>>,
        << <<>>, <<1>>, <<2>>, <<3>> >>,
        <<Some({"id", "name"}), None, None, None>>),
     files |-> ("people.csv" :> file),
     options |-> MopperOptions(FALSE, None)]

(* A source without attributes under a Projection of {id}. *)
ProjectionPlan ==
    [plan |-> MappingPlan(
        <<Op("Source", "people.csv", {}, ""),
          Op("Project", 0, {"id"}, ""),
          Op("Extend", ("?o" :> Literal(Reference("id"))), {}, ""),
          Op("Serialize", "?o .", {}, ""),
          Op("Target", "stdout", {}, "")>>,
        << <<>>, <<1>>, <<2>>, <<3>>, <<4>> >>,
        <<None, None, None, None, None>>),
     files |-> ("people.csv" :> OneRowCsv),
     options |-> MopperOptions(FALSE, None)]

(* Two Projections in a row, the one of {name} upstream of the one of      *)
(* {id}: once listed upstream first in plan.nodes, once downstream first.  *)
TwoProjectionsPlan(upstream, downstream) ==
    [plan |-> MappingPlan(
        [i \in 1..6 |->
            CASE i = 1 -> Op("Source", "people.csv", {}, "")
              [] i = upstream -> Op("Project", 0, {"name"}, "")
              [] i = downstream -> Op("Project", 0, {"id"}, "")
              [] i = 4 -> Op("Extend", ("?o" :> Literal(Reference("id"))), {}, "")
              [] i = 5 -> Op("Serialize", "?o .", {}, "")
              [] i = 6 -> Op("Target", "stdout", {}, "")],
        [i \in 1..6 |->
            CASE i = 1 -> <<>>
              [] i = upstream -> <<1>>
              [] i = downstream -> <<upstream>>
              [] i = 4 -> <<downstream>>
              [] OTHER -> <<i - 1>>],
        [i \in 1..6 |-> None]),
     files |-> ("people.csv" :> OneRowCsv),
     options |-> MopperOptions(FALSE, None)]

(* A -> F -> [E1, E2]: a source, a Fragmenter and two Extend branches that *)
(* end in the same target.                                                 *)
FragmenterPlan ==
    [plan |-> MappingPlan(
        <<Op("Source", "people.csv", {}, ""),
          Op("Fragment", 0, {}, ""),
          Op("Extend", ("?s" :> Iri(Reference("id"))), {}, ""),
          Op("Extend", ("?o" :> Literal(Reference("name"))), {}, ""),
          Op("Serialize", "?s .", {}, ""),
          Op("Serialize", "?o .", {}, ""),
          Op("Target", "stdout", {}, ""),
          Op("Target", "stdout", {}, "")>>,
        << <<>>, <<1>>, <<2>>, <<2>>, <<3>>, <<4>>, <<5>>, <<6>> >>,
        <<Some({"id", "name"}), None, None, None, None, None, None, None>>),
     files |-> ("people.csv" :> PeopleCsv),
     options |-> MopperOptions(FALSE, None)]

(* Two sources joined on a = c by the Join node 3, whose left node is 1    *)
(* and whose right node is 2 (join_node_id, left_node_id, right_node_id).  *)
JoinPlan ==
    [plan |-> MappingPlan(
        <<Op("Source", "l.csv", {}, ""),
          Op("Source", "r.csv", {}, ""),
          Op("Join", << <<"a", "c">> >>, {}, JoinAlias),
          Op("Extend", ("?s" :> Iri(Reference("a")))
                       @@ ("?o" :> Literal(Reference("j_d"))), {}, ""),
          Op("Serialize", "?s ?o .", {}, ""),
          Op("Target", "stdout", {}, "")>>,
        << <<>>, <<>>, <<1, 2>>, <<3>>, <<4>>, <<5>> >>,
        <<Some({"a", "b"}), Some({"c", "d"}), None, None, None, None>>),
     files |-> ("l.csv" :> LeftCsv) @@ ("r.csv" :> RightCsv),
     options |-> MopperOptions(FALSE, None)]

(* One Extend under two Serialize nodes, each with a Target of its own     *)
(* configuration, run with force_to_std_out or force_to_file set.          *)
TwoTargetsPlan(options) ==
    [plan |-> MappingPlan(
        <<Op("Source", "people.csv", {}, ""),
          Op("Extend", ("?s" :> Iri(Reference("id"))), {}, ""),
          Op("Serialize", "?s .", {}, ""),
          Op("Serialize", "?s .", {}, ""),
          Op("Target", "stdout", {}, ""),
          Op("Target", "out.nq", {}, "")>>,
        << <<>>, <<1>>, <<2>>, <<2>>, <<3>>, <<4>> >>,
        <<Some({"id"}), None, None, None, None, None>>),
     files |-> ("people.csv" :> OneRowCsv),
     options |-> options]

(* Two Extend nodes in a chain: the second reads the variable the first   *)
(* binds.                                                                  *)
ExtendChainPlan ==
    [plan |-> MappingPlan(
        <<Op("Source", "people.csv", {}, ""),
          Op("Extend", ("?a" :> Literal(Reference("id"))), {}, ""),
          Op("Extend", ("?s" :> Iri(Reference("a"))), {}, ""),
          Op("Serialize", "?s .", {}, ""),
          Op("Target", "stdout", {}, "")>>,
        << <<>>, <<1>>, <<2>>, <<3>>, <<4>> >>,
        <<Some({"id"}), None, None, None, None>>),
     files |-> ("people.csv" :> OneRowCsv),
     options |-> MopperOptions(FALSE, None)]

(* A source that asks for an attribute its file does not have. *)
MissingAttributePlan ==
    [plan |-> MappingPlan(
        <<Op("Source", "people.csv", {}, ""),
          Op("Extend", ("?s" :> Iri(Reference("id"))), {}, ""),
          Op("Serialize", "?s .", {}, ""),
          Op("Target", "stdout", {}, "")>>,
        << <<>>, <<1>>, <<2>>, <<3>> >>,
        <<Some({"id", "age"}), None, None, None>>),
     files |-> ("people.csv" :> OneRowCsv),
     options |-> MopperOptions(FALSE, None)]

(* The plans, files and options of the enumerated runs. *)
FlowInputs ==
    << PeoplePlan(PeopleCsv, Constant("http://ex/name"), "<?s> <?p> ?o ."),
      PeoplePlan(PeopleCsv, Iri(Constant("http://ex/name")), "?s ?p ?o ."),
      PeoplePlan(PeopleCsv, Constant("http://ex/name"), "?s ?p ?o ."),
      PeoplePlan(LockedCsv, Iri(Constant("http://ex/name")), "?s ?p ?o ."),
      ProjectionPlan,
      TwoProjectionsPlan(2, 3),
      TwoProjectionsPlan(3, 2),
      FragmenterPlan,
      JoinPlan,
      ExtendChainPlan,
      MissingAttributePlan,
      TwoTargetsPlan(MopperOptions(FALSE, None)),
      TwoTargetsPlan(MopperOptions(TRUE, None)),
      TwoTargetsPlan(MopperOptions(FALSE, Some("forced.nq"))),
      TwoTargetsPlan(MopperOptions(TRUE, Some("forced.nq"))) >>

(* message_buffer_capacity of the enumerated runs. *)
FlowCapacity == 1

FlowKind(id) == flow_plan[id].operator.kind
FlowConfig(id) == flow_plan[id].operator.config

(* node_id.to_string() *)
to_string(id) == ToString(id)

(* lib.rs:82-101 and 124, 143, 160: the senders the driver hands to the   *)
(* worker of node id, named by their receiving nodes, in any of the orders *)
(* in which the HashMap may have handed out those nodes.                   *)
tx_channels(nm, id) ==
    LET receivers == {n \in DOMAIN nm : id \in Range(nm[n].from)}
    IN  {senders_of(nm, order, Len(order), id) : order \in Orders(receivers)}

(* tx_channels.iter().for_each(|tx_chan| tx_chan.send(tuple.clone())): the *)
(* sends of a worker for the tuples it produced, in order.                 *)
sends_on_first_channel(tx, tuples) ==
    [k \in DOMAIN tuples |-> [to |-> Head(tx), tuple |-> tuples[k]]]

sends(tx, tuples) ==
    [n \in 1..(Len(tuples) * Len(tx)) |->
        [to |-> tx[((n - 1) % Len(tx)) + 1],
         tuple |-> tuples[((n - 1) \div Len(tx)) + 1]]]

(* The thread of node id as the driver starts it (lib.rs:106-202): its     *)
(* position, its locals, its senders and the sends it has yet to do.       *)
FlowWorker(pc, st, tx) ==
    [pc |-> pc, resume |-> pc, st |-> st, tx |-> tx, queue |-> <<>>,
     code |-> 0, msg |-> ""]

(* CSVFileSource::new (csv_file.rs:36-49): the attributes in the order the *)
(* HashSet hands them out.                                                 *)
SourceAttributes(node) ==
    IF node.attributes = None THEN {<<>>} ELSE Orders(node.attributes[1])

(* ExtendOperator::new (extension.rs:40-56): the functions in the order    *)
(* the HashMap extend_pairs hands them out.                                *)
ExtendFunctions(extend_pairs) ==
    {[i \in DOMAIN order |-> [name |-> order[i], function |-> extend_pairs[order[i]]]] :
        order \in Orders(DOMAIN extend_pairs)}

FlowLocals(nm, id) ==
    LET node == nm[id]
        kind == node.operator.kind
    IN  CASE kind = "Source" ->
                {[attributes |-> a, attribute_indices |-> <<>>, pos |-> 0] :
                    a \in SourceAttributes(node)}
          [] kind = "Extend" ->
                {[functions |-> f, join_alias |-> node.join_alias, names |-> <<>>] :
                    f \in ExtendFunctions(node.operator.config)}
          [] kind = "Serialize" ->
                {[template_string_parts |->
                    create_template_template_string_parts(node.operator.config),
                  variable_names |-> <<>>, data_types |-> <<>>]}
          [] kind = "Join" ->
                {JoinLocals(Len(node.operator.config))}
          [] OTHER ->
                {[writer |-> writer(flow_input.options, node.operator.config)]}

FirstPc(kind) ==
    CASE kind = "Source" -> "open"
      [] kind = "Extend" -> "names"
      [] kind = "Serialize" -> "variable_names"
      [] OTHER -> "loop"

(* The threads of the reduced plan, every one started. *)
RECURSIVE StartedWorkers(_, _)
StartedWorkers(nm, ids) ==
    IF ids = {} THEN {<<>>}
    ELSE LET id == CHOOSE i \in ids : \A j \in ids : i >= j
         IN  {Insert(started, id, FlowWorker(FirstPc(nm[id].operator.kind), st, tx)) :
                started \in StartedWorkers(nm, ids \ {id}),
                st \in FlowLocals(nm, id),
                tx \in tx_channels(nm, id)}

FlowInit ==
    /\ \E i \in DOMAIN FlowInputs : flow_input = FlowInputs[i]
    /\ \E order \in Orders(same_io_buckets(flow_input.plan,
                                         to_one_target_of(flow_input.options))) :
        flow_plan = rewrite(flow_input.plan, to_one_target_of(flow_input.options), order)
    /\ flow_w \in StartedWorkers(flow_plan, DOMAIN flow_plan)
    /\ flow_chan = [id \in new_receiver_map(flow_plan) |-> <<>>]
    /\ flow_sent = [id \in DOMAIN flow_plan |-> <<>>]
    /\ flow_recv = [id \in DOMAIN flow_plan |-> <<>>]
    /\ flow_written = [id \in {n \in DOMAIN flow_plan : FlowKind(n) = "Target"} |-> <<>>]
    /\ LET writers == {flow_w[t].st.writer : t \in DOMAIN flow_written}
       IN  flow_driver = [pc |-> IF "todo!()" \in writers THEN "panicked" ELSE "join",
                          result |-> "", errors |-> <<>>,
                          created |-> writers \ {"stdout", "todo!()"}]

(* The variables as they are while no such run is modelled. *)
FlowIdle ==
    /\ flow_input = [plan |-> [nodes |-> <<>>, edges |-> <<>>], files |-> <<>>,
                     options |-> MopperOptions(FALSE, None)]
    /\ flow_plan = <<>>
    /\ flow_w = <<>>
    /\ flow_chan = <<>>
    /\ flow_sent = <<>>
    /\ flow_recv = <<>>
    /\ flow_written = <<>>
    /\ flow_driver = [pc |-> "returned", result |-> "Ok", errors |-> <<>>,
                      created |-> {}]

(* The thread of node w has ended, by a return or by a panic. *)
Ended(w) == flow_w[w].pc \in {"exited", "panicked"}

(* A sender of channel c is held by a thread that has not ended. *)
FlowSenderAliveAtSend(c) ==
    \E w \in DOMAIN flow_w : flow_w[w].pc = "send" /\ c \in Range(flow_w[w].tx)

FlowSenderAlive(c) ==
    \E w \in DOMAIN flow_w : ~Ended(w) /\ c \in Range(flow_w[w].tx)

(* A panic of start ends the process; until start is left every thread     *)
(* runs on.                                                                *)
FlowRunning(w) == flow_driver.pc = "join" /\ w \in DOMAIN flow_w

(* The worker after it produced `tuples`: they are sent on every one of    *)
(* tx_channels before it goes on at `next`.                                *)
produced(worker, next, st, tuples) ==
    LET queue == sends(worker.tx, tuples)
    IN  [worker EXCEPT !.st = st, !.queue = queue, !.resume = next,
                       !.pc = IF queue = <<>> THEN next ELSE "send"]

panicked(worker) == [worker EXCEPT !.pc = "panicked"]

returned(worker, code, msg) ==
    [worker EXCEPT !.pc = "exited", !.code = code, !.msg = msg]

FlowFile(w) == flow_input.files[FlowConfig(w)]

(* csv_file.rs:57-63: the file does not open and the thread returns        *)
(* (1, "Cannot open ...").                                                 *)
FlowSourceOpen ==
    \E w \in DOMAIN flow_w :
        /\ FlowRunning(w)
        /\ flow_w[w].pc = "open"
        /\ flow_w' = [flow_w EXCEPT ![w] =
                IF FlowFile(w).state = "unreadable"
                THEN returned(@, 1, "Cannot open")
                ELSE [@ EXCEPT !.pc = "headers"]]
        /\ UNCHANGED <<flow_input, flow_plan, flow_chan, flow_sent, flow_recv,
                       flow_written, flow_driver, outsideFlow>>

(* csv_file.rs:74-98: the first record of the file gives the indices of    *)
(* the attributes, and the header tuple is sent; an empty file sends none. *)
FlowSourceHeaders ==
    \E w \in DOMAIN flow_w :
        /\ FlowRunning(w)
        /\ flow_w[w].pc = "headers"
        /\ LET records == FlowFile(w).records
               st == flow_w[w].st
           IN  flow_w' = [flow_w EXCEPT ![w] =
                IF records = <<>> THEN [@ EXCEPT !.pc = "records"]
                ELSE produced(@, "records",
                        [st EXCEPT !.pos = 1,
                                   !.attribute_indices =
                                        csv_attribute_indices(records[1], st.attributes)],
                        <<node_id_plus_headers(to_string(w), st.attributes)>>)]
        /\ UNCHANGED <<flow_input, flow_plan, flow_chan, flow_sent, flow_recv,
                       flow_written, flow_driver, outsideFlow>>

(* csv_file.rs:100-114: the next record is sent, or the file is at its end *)
(* and the thread returns (0, "").                                         *)
FlowSourceRecord ==
    \E w \in DOMAIN flow_w :
        /\ FlowRunning(w)
        /\ flow_w[w].pc = "records"
        /\ LET records == FlowFile(w).records
               st == flow_w[w].st
           IN  flow_w' = [flow_w EXCEPT ![w] =
                IF st.pos >= Len(records) THEN returned(@, 0, "")
                ELSE produced(@, "records", [st EXCEPT !.pos = @ + 1],
                        <<node_id_plus_data(to_string(w), st.attribute_indices,
                                            records[st.pos + 1])>>)]
        /\ UNCHANGED <<flow_input, flow_plan, flow_chan, flow_sent, flow_recv,
                       flow_written, flow_driver, outsideFlow>>

(* tx_chan.send(..).unwrap() on the next of tx_channels: it panics when    *)
(* the receiver is gone and waits while the channel has no room.           *)
FlowSend ==
    \E w \in DOMAIN flow_w :
        /\ FlowRunning(w)
        /\ flow_w[w].pc = "send"
        /\ LET next == Head(flow_w[w].queue)
           IN  IF Ended(next.to)
               THEN /\ flow_w' = [flow_w EXCEPT ![w] = panicked(@)]
                    /\ UNCHANGED <<flow_chan, flow_sent>>
               ELSE /\ Len(flow_chan[next.to]) < FlowCapacity
                    /\ flow_chan' = [flow_chan EXCEPT ![next.to] = Append(@, next.tuple)]
                    /\ flow_sent' = [flow_sent EXCEPT ![w] = Append(@, next)]
                    /\ flow_w' = [flow_w EXCEPT ![w] =
                            [@ EXCEPT !.queue = Tail(@),
                                      !.pc = IF Len(flow_w[w].queue) = 1
                                             THEN flow_w[w].resume ELSE "send"]]
        /\ UNCHANGED <<flow_input, flow_plan, flow_recv, flow_written, flow_driver,
                       outsideFlow>>

(* extension.rs:67-76: the names of the functions are sent. *)
FlowExtendNames ==
    \E w \in DOMAIN flow_w :
        /\ FlowRunning(w)
        /\ FlowKind(w) = "Extend"
        /\ flow_w[w].pc = "names"
        /\ flow_w' = [flow_w EXCEPT ![w] =
                produced(@, "types", @.st,
                    <<node_id_plus_function_names(to_string(w), @.st.functions)>>)]
        /\ UNCHANGED <<flow_input, flow_plan, flow_chan, flow_sent, flow_recv,
                       flow_written, flow_driver, outsideFlow>>

(* extension.rs:78-86: the result types of the functions are sent. *)
FlowExtendTypes ==
    \E w \in DOMAIN flow_w :
        /\ FlowRunning(w)
        /\ FlowKind(w) = "Extend"
        /\ flow_w[w].pc = "types"
        /\ flow_w' = [flow_w EXCEPT ![w] =
                produced(@, "header", @.st,
                    <<node_id_plus_result_types(to_string(w), @.st.functions)>>)]
        /\ UNCHANGED <<flow_input, flow_plan, flow_chan, flow_sent, flow_recv,
                       flow_written, flow_driver, outsideFlow>>

(* rx_chan.iter() hands the next tuple to the thread of node w, which is   *)
(* of kind `kind` and at position `pc`, and goes on as `handle` says.      *)
FlowReceive(kind, pc, handle(_, _, _)) ==
    \E w \in DOMAIN flow_w :
        /\ FlowRunning(w)
        /\ FlowKind(w) = kind
        /\ flow_w[w].pc = pc
        /\ flow_chan[w] # <<>>
        /\ flow_chan' = [flow_chan EXCEPT ![w] = Tail(@)]
        /\ flow_recv' = [flow_recv EXCEPT ![w] = Append(@, Head(flow_chan[w]))]
        /\ flow_w' = [flow_w EXCEPT ![w] = handle(w, @, Head(flow_chan[w]))]
        /\ UNCHANGED <<flow_input, flow_plan, flow_sent, flow_driver, outsideFlow>>

(* extension.rs:90-121: the first tuple gives the variable names. *)
extend_header(w, worker, variable_names) ==
    [worker EXCEPT !.pc = "data", !.resume = "data",
                   !.st.names = new_variable_names(worker.st.join_alias, variable_names)]

(* extension.rs:125-142: one data tuple; a panic of a function ends the    *)
(* thread.                                                                 *)
extend_data(w, worker, data) ==
    LET st == worker.st
        input == data_to_process(st.join_alias, data)
    IN  IF \E i \in DOMAIN st.functions :
                exec_panics(st.functions[i].function, st.names, input)
        THEN panicked(worker)
        ELSE produced(worker, "data", st,
                <<node_id_plus_result(to_string(w), st.functions, st.names, input)>>)

(* serializer.rs:52-54 and 57-59: the names and the types, each without    *)
(* the node id.                                                            *)
serialize_variable_names(w, worker, names) ==
    [worker EXCEPT !.pc = "data_types", !.resume = "data_types",
                   !.st.variable_names = Tail(names)]

serialize_data_types(w, worker, types) ==
    [worker EXCEPT !.pc = "values", !.resume = "values",
                   !.st.data_types = Tail(types)]

(* serializer.rs:61-115: one tuple of values is rendered and sent. *)
serialize_values(w, worker, values) ==
    LET st == worker.st
    IN  IF render_panics(st.template_string_parts, st.variable_names, st.data_types,
                         Tail(values))
        THEN panicked(worker)
        ELSE produced(worker, "values", st,
                << <<to_string(w),
                     result_str(st.template_string_parts, st.variable_names,
                                st.data_types, Tail(values))>> >>)

(* join.rs:72-166 for the Join node join_node_id between left_node_id and  *)
(* right_node_id.                                                          *)
join_tuple(w, worker, data) ==
    LET step == process(worker.st, FlowConfig(w), data)
    IN  produced(worker, "loop", step.st, [k \in DOMAIN step.sent |-> step.sent[k].tuple])

FlowExtendHeader ==
    FlowReceive("Extend", "header", extend_header) /\ UNCHANGED flow_written

FlowExtendData ==
    FlowReceive("Extend", "data", extend_data) /\ UNCHANGED flow_written

FlowSerializeNames ==
    FlowReceive("Serialize", "variable_names", serialize_variable_names)
    /\ UNCHANGED flow_written

FlowSerializeTypes ==
    FlowReceive("Serialize", "data_types", serialize_data_types)
    /\ UNCHANGED flow_written

FlowSerializeValues ==
    FlowReceive("Serialize", "values", serialize_values) /\ UNCHANGED flow_written

FlowJoinReceive ==
    FlowReceive("Join", "loop", join_tuple) /\ UNCHANGED flow_written

(* writer_sink.rs:55-65 with deduplicate = false (the default option): the *)
(* text of the tuple is written.                                           *)
FlowSinkReceive ==
    \E w \in DOMAIN flow_w :
        /\ FlowRunning(w)
        /\ FlowKind(w) = "Target"
        /\ flow_w[w].pc = "loop"
        /\ flow_chan[w] # <<>>
        /\ flow_chan' = [flow_chan EXCEPT ![w] = Tail(@)]
        /\ flow_recv' = [flow_recv EXCEPT ![w] = Append(@, Head(flow_chan[w]))]
        /\ flow_written' = [flow_written EXCEPT ![w] =
                Append(@, data_to_write(Head(flow_chan[w])))]
        /\ UNCHANGED <<flow_input, flow_plan, flow_w, flow_sent, flow_driver,
                       outsideFlow>>

(* The thread waits in a receive. *)
AtReceive(w) ==
    /\ FlowKind(w) # "Source"
    /\ flow_w[w].pc \in {"header", "data", "variable_names", "data_types", "values",
                         "loop"}

(* The channel is empty and every sender dropped: the receive loop ends    *)
(* and the thread returns (0, ""), or () for a Serialize.                  *)
FlowClosed ==
    \E w \in DOMAIN flow_w :
        /\ FlowRunning(w)
        /\ AtReceive(w)
        /\ flow_chan[w] = <<>>
        /\ ~FlowSenderAlive(w)
        /\ flow_w' = [flow_w EXCEPT ![w] = returned(@, 0, "")]
        /\ UNCHANGED <<flow_input, flow_plan, flow_chan, flow_sent, flow_recv,
                       flow_written, flow_driver, outsideFlow>>

(* lib.rs:206-213: start joins the handles in the order in which the       *)
(* HashMap handed out the nodes, which is any order: join().unwrap()       *)
(* panics at the handle of a thread that panicked, which may be the first. *)
FlowDriverPanic ==
    /\ flow_driver.pc = "join"
    /\ \E w \in DOMAIN flow_w : flow_w[w].pc = "panicked"
    /\ flow_driver' = [flow_driver EXCEPT !.pc = "panicked"]
    /\ UNCHANGED <<flow_input, flow_plan, flow_w, flow_chan, flow_sent, flow_recv,
                   flow_written, outsideFlow>>

(* lib.rs:206-220: every thread returned; the codes above 0 are collected  *)
(* in the order of the handles.                                            *)
FlowDriverReturn ==
    /\ flow_driver.pc = "join"
    /\ \A w \in DOMAIN flow_w : flow_w[w].pc = "exited"
    /\ \E order \in Orders({w \in DOMAIN flow_w : flow_w[w].code > 0}) :
        LET errors == [k \in DOMAIN order |->
                        <<flow_w[order[k]].code, flow_w[order[k]].msg>>]
        IN  flow_driver' = [flow_driver EXCEPT
                                !.pc = "returned",
                                !.result = IF errors = <<>> THEN "Ok" ELSE "Err",
                                !.errors = errors]
    /\ UNCHANGED <<flow_input, flow_plan, flow_w, flow_chan, flow_sent, flow_recv,
                   flow_written, outsideFlow>>

FlowNext ==
    \/ FlowSourceOpen
    \/ FlowSourceHeaders
    \/ FlowSourceRecord
    \/ FlowSend
    \/ FlowExtendNames
    \/ FlowExtendTypes
    \/ FlowExtendHeader
    \/ FlowExtendData
    \/ FlowSerializeNames
    \/ FlowSerializeTypes
    \/ FlowSerializeValues
    \/ FlowJoinReceive
    \/ FlowSinkReceive
    \/ FlowClosed
    \/ FlowDriverPanic
    \/ FlowDriverReturn

----------------------------------------------------------------------------
(* ---- Specifications ---- *)
RewriteIdle ==
    /\ plan = [nodes |-> <<>>, edges |-> <<>>]
    /\ to_one_target = FALSE
    /\ node_map = <<>>
    /\ rpc = "done"

(* The rewriter alone: no worker runs. *)
RewriteSpecInit == RewriteInit /\ JoinIdle /\ ExtendIdle /\ RunIdle /\ SinkIdle /\ ParseIdle
    /\ ScanIdle /\ FlowIdle
RewriteSpec == RewriteSpecInit /\ [][RewriteNext]_vars

(* One Join worker alone. *)
JoinSpecInit == JoinInit /\ RewriteIdle /\ ExtendIdle /\ RunIdle /\ SinkIdle /\ ParseIdle
    /\ ScanIdle /\ FlowIdle
JoinSpec == JoinSpecInit /\ [][JoinNext]_vars

(* One Extend worker alone. *)
ExtendSpecInit == ExtendInit /\ RewriteIdle /\ JoinIdle /\ RunIdle /\ SinkIdle /\ ParseIdle
    /\ ScanIdle /\ FlowIdle
ExtendSpec == ExtendSpecInit /\ [][ExtendNext]_vars

(* One run of start: the driver and the workers of the reduced plan. *)
RunSpecInit == RunInit /\ RewriteIdle /\ JoinIdle /\ ExtendIdle /\ SinkIdle /\ ParseIdle
    /\ ScanIdle /\ FlowIdle
RunSpec == RunSpecInit /\ [][RunNext]_vars

(* One WriterSink worker alone. *)
SinkSpecInit == SinkInit /\ RewriteIdle /\ JoinIdle /\ ExtendIdle /\ RunIdle /\ ParseIdle
    /\ ScanIdle /\ FlowIdle
SinkSpec == SinkSpecInit /\ [][SinkNext]_vars

(* One call of parse_template alone. *)
ParseSpecInit ==
    ParseInit /\ RewriteIdle /\ JoinIdle /\ ExtendIdle /\ RunIdle /\ SinkIdle
    /\ ScanIdle /\ FlowIdle
ParseSpec == ParseSpecInit /\ [][ParseNext]_vars

(* One run of start with the tuples the workers exchange. *)
FlowSpecInit ==
    FlowInit /\ RewriteIdle /\ JoinIdle /\ ExtendIdle /\ RunIdle /\ SinkIdle /\ ParseIdle
    /\ ScanIdle
FlowSpec == FlowSpecInit /\ [][FlowNext]_vars

(* One call of create_template_template_string_parts alone. *)
ScanSpecInit ==
    ScanInit /\ RewriteIdle /\ JoinIdle /\ ExtendIdle /\ RunIdle /\ SinkIdle /\ ParseIdle
    /\ FlowIdle
ScanSpec == ScanSpecInit /\ [][ScanNext]_vars

----------------------------------------------------------------------------
(* ---- Claims about rewrite ---- *)

(* C1: the node map rewrite returns holds no Projection and no Fragmenter  *)
(* node, whatever the input plan.                                          *)
C1_NoProjectionOrFragmenter ==
    Rewritten => \A id \in DOMAIN node_map : KindOf(id) \notin {"Project", "Fragment"}

(* A plan with a Fragmenter feeding a Projection went through rewrite. *)
C1_Witness ==
    /\ Rewritten
    /\ \E f, q \in DOMAIN plan.nodes :
          /\ PlanKind(f) = "Fragment"
          /\ PlanKind(q) = "Project"
          /\ <<f, q>> \in Range(plan.edges)
    /\ DOMAIN node_map # {}

(* C2: edge symmetry after rewrite: every id in x.to is a present node     *)
(* that lists x in its from, and every id in x.from is a present node that *)
(* lists x in its to.                                                      *)
C2_EdgeSymmetry ==
    Rewritten =>
        \A x \in DOMAIN node_map :
            /\ \A y \in Range(node_map[x].to) :
                    Present(y) /\ x \in Range(node_map[y].from)
            /\ \A y \in Range(node_map[x].from) :
                    Present(y) /\ x \in Range(node_map[y].to)

(* C3: no Join of the rewritten plan has from[0] == from[1]. *)
C3_NoSelfJoin ==
    Rewritten =>
        \A j \in DOMAIN node_map :
            KindOf(j) = "Join" => node_map[j].from[1] # node_map[j].from[2]

(* C4: after rewrite no two Source nodes and no two Target nodes have the  *)
(* same configuration, and of each group of I/O nodes of the input with    *)
(* the same configuration exactly one node remains.  With to_one_target    *)
(* every Target has the one forced configuration (the constant key).       *)
SameIO(i, j) ==
    /\ PlanKind(i) = PlanKind(j)
    /\ \/ plan.nodes[i].operator.config = plan.nodes[j].operator.config
       \/ to_one_target /\ PlanKind(i) = "Target"

SelfJoins == {j \in Range(join_indices(plan)) : is_self_join(node_map, j)}

(* Join j is gone after the pass, every downstream d of j has the upstream *)
(* u of j where it had j in its from list and carries j's alias, and u.to  *)
(* holds every downstream of j and not j.                                  *)
Rewired(j) ==
    LET u == node_map[j].from[1]
        downstream == Range(node_map[j].to)
    IN  /\ j \notin DOMAIN node_map'
        /\ \A d \in downstream :
            /\ d \in DOMAIN node_map'
            /\ node_map'[d].from = replace_from(node_map[d], j, u).from
            /\ node_map'[d].join_alias = Some(node_map[j].operator.join_alias)
        /\ u \in DOMAIN node_map'
        /\ downstream \subseteq Range(node_map'[u].to)
        /\ j \notin Range(node_map'[u].to)

(* C21: the pass that removes the self-joins rewires every Join whose two  *)
(* inputs are the same node, also when one upstream feeds several of them. *)
C21_SelfJoinRewiring ==
    [][(rpc = "self_joins" /\ rpc' = "done") => \A j \in SelfJoins : Rewired(j)]_vars

(* ---------------------------------------------------------------------- *)
(* C25: in the I/O merge pass the survivor of every bucket of two or more *)
(* nodes is its member with the lowest id; after the pass the other       *)
(* members are absent, the survivor's to and from lists hold every edge   *)
(* the removed members had, and every remaining node that had a removed   *)
(* member at some position of its from or to list has that member's       *)
(* survivor at that position, also a node next to several removed members *)
(* of one bucket or of different buckets.                                 *)
Buckets == same_io_buckets(plan, to_one_target)

Lowest(b) == CHOOSE i \in Range(b) : \A j \in Range(b) : i <= j

MergedAway == UNION {Range(b) \ {Lowest(b)} : b \in Buckets}

(* The id that stands for `i` after the pass. *)
SurvivorOf(i) ==
    IF i \in MergedAway
    THEN Lowest(CHOOSE b \in Buckets : i \in Range(b))
    ELSE i

Redirected(ids) == [k \in DOMAIN ids |-> SurvivorOf(ids[k])]

BucketMerged(b) ==
    LET s == Lowest(b)
    IN  /\ b[1] = s
        /\ s \in DOMAIN node_map'
        /\ \A r \in Range(b) :
            /\ r # s => r \notin DOMAIN node_map'
            /\ Range(node_map[r].to) \subseteq Range(node_map'[s].to)
            /\ Range(node_map[r].from) \subseteq Range(node_map'[s].from)

C25_IOMergePass ==
    [][(rpc = "merge" /\ rpc' = "fragments") =>
        /\ \A b \in Buckets : BucketMerged(b)
        /\ \A n \in DOMAIN node_map \ MergedAway :
            /\ n \in DOMAIN node_map'
            /\ n \notin io_ids(plan) =>
                /\ node_map'[n].from = Redirected(node_map[n].from)
                /\ node_map'[n].to = Redirected(node_map[n].to)]_vars

(* The number of senders into the channel of n that the driver hands to u: *)
(* one clone for every element of n's from that is u (lib.rs 91-98).       *)
SendersInto(u, n) == Len(SelectSeq(node_map[n].from, LAMBDA f : f = u))

(* C38: in the rewritten plan no node occurs twice in the from of another, *)
(* so that no producer holds two senders into the channel of one consumer  *)
(* and no tuple it emits is received twice.                                *)
C38_OneSenderPerEdge ==
    Rewritten =>
        \A n \in DOMAIN node_map : \A u \in Range(node_map[n].from) :
            SendersInto(u, n) <= 1

(* What rewrite gives for the input plan when the merge pass visits the    *)
(* buckets in `order`: the node map it returns, or that it panics.         *)
RewriteOutcome(order) ==
    LET merged == merge_io(initial_node_map(plan), order)
        no_fragments == remove_operators([nm |-> merged, panic |-> FALSE],
                            fragment_indices(plan), Len(fragment_indices(plan)), FALSE)
        no_projections ==
            IF no_fragments.panic THEN no_fragments
            ELSE remove_operators(no_fragments, projection_indices(plan),
                                  Len(projection_indices(plan)), TRUE)
        panics ==
            \/ no_projections.panic
            \/ \E k \in DOMAIN join_indices(plan) :
                    self_join_panics(no_projections.nm, join_indices(plan)[k])
    IN  [panic |-> panics,
         nm |-> IF panics THEN <<>>
                ELSE remove_self_joins(no_projections.nm, join_indices(plan))]

(* C40: what rewrite returns for a plan and a force-one-target flag is the *)
(* same for every order in which the merge pass may visit the I/O-hash     *)
(* buckets, and with it for every order of the updates that the visits     *)
(* collect: the outcome of a finished rewrite is the outcome for each of   *)
(* the orders.                                                             *)
C40_RewriteDeterministic ==
    rpc \in {"done", "panic"} =>
        \A order \in Orders(same_io_buckets(plan, to_one_target)) :
            RewriteOutcome(order)
                = [panic |-> rpc = "panic",
                   nm |-> IF rpc = "panic" THEN <<>> ELSE node_map]

----------------------------------------------------------------------------
(* ---- Claims about the Join worker ---- *)

(* The multiset of the elements of a sequence. *)
BagOf(seq) ==
    [t \in Range(seq) |-> Cardinality({k \in DOMAIN seq : seq[k] = t})]

(* The data tuples sent so far, in order. *)
DataSent ==
    LET sent == SelectSeq(join_out, LAMBDA m : m.kind = "data")
    IN  [k \in DOMAIN sent |-> sent[k].tuple]

HeadersSent == SelectSeq(join_out, LAMBDA m : m.kind = "header")

ColumnOf(header, name) == CHOOSE p \in DOMAIN header : header[p] = name

LeftHeader == Tail(join_in.left[1])
RightHeader == Tail(join_in.right[1])

(* The data records of a side among the tuples received from it. *)
LeftRecords == 2..join_pos.left
RightRecords == 2..join_pos.right

(* L and R agree on every attribute pair. *)
PairsMatch(L, R) ==
    \A i \in DOMAIN join_op.left_right_join_attr_pairs :
        LET pair == join_op.left_right_join_attr_pairs[i]
        IN  L[ColumnOf(LeftHeader, pair[1])] = R[ColumnOf(RightHeader, pair[2])]

MatchingPairs ==
    {lr \in LeftRecords \X RightRecords :
        PairsMatch(Tail(join_in.left[lr[1]]), Tail(join_in.right[lr[2]]))}

Merged(lr) ==
    <<join_node_id>> \o Tail(join_in.left[lr[1]]) \o Tail(join_in.right[lr[2]])

(* C5: when the Join has consumed both inputs, the data tuples it has sent *)
(* are exactly one merged tuple [node_id, L..., R...] for each pair of a   *)
(* left record L and a right record R that agree on every attribute pair   *)
(* (l_i, r_i), the columns being found by name in the two headers; nothing *)
(* else is sent.                                                           *)
C5_JoinEmitsExactlyTheMatchingPairs ==
    join_pc = "exited" /\ join_op.left_right_join_attr_pairs # <<>> =>
        \A t \in Range(DataSent) \cup {Merged(lr) : lr \in MatchingPairs} :
            Cardinality({k \in DOMAIN DataSent : DataSent[k] = t})
                = Cardinality({lr \in MatchingPairs : Merged(lr) = t})

(* The tuples sent when the worker processes `tuples` in order from `st`. *)
RECURSIVE SentFor(_, _, _)
SentFor(st, pairs, tuples) ==
    IF tuples = <<>> THEN <<>>
    ELSE LET r == process(st, pairs, Head(tuples))
         IN  r.sent \o SentFor(r.st, pairs, Tail(tuples))

(* The data tuples of the arrival order "all of left, then all of right". *)
LeftFirstData ==
    LET pairs == join_op.left_right_join_attr_pairs
        sent == SelectSeq(SentFor(JoinLocals(Len(pairs)), pairs,
                                  join_in.left \o join_in.right),
                          LAMBDA m : m.kind = "data")
    IN  [k \in DOMAIN sent |-> sent[k].tuple]

(* C6: whatever the interleaving in which the two sides' tuples arrived,   *)
(* the multiset of data tuples sent once both inputs are consumed is the   *)
(* multiset sent for the arrival order "left side first, then right side", *)
(* hence the same for every interleaving.                                  *)
C6_JoinSymmetry ==
    join_pc = "exited" => BagOf(DataSent) = BagOf(LeftFirstData)

MergedWithArrived(side) ==
    LET arrived == Tail(join_in[side][join_pos[side] + 1])
    IN  IF side = "left"
        THEN {<<join_node_id>> \o arrived \o Tail(join_in.right[r]) : r \in RightRecords}
        ELSE {<<join_node_id>> \o Tail(join_in.left[l]) \o arrived : l \in LeftRecords}

LeftThenRight(side) ==
    \A k \in (Len(join_out) + 1)..Len(join_out') :
        join_out'[k].kind = "data" =>
            /\ join_out'[k].tuple \in MergedWithArrived(side)
            /\ join_out'[1].kind = "header"
            /\ Len(join_out'[k].tuple) = Len(join_out'[1].tuple)

C28_JoinColumnOrder ==
    [][\A side \in {"left", "right"} :
            join_pos'[side] = join_pos[side] + 1 => LeftThenRight(side)]_vars

(* One left record matched two right records of different payloads, so a  *)
(* right record arrived after the left one; two right records matched one *)
(* left record likewise.                                                  *)
C28_Witness ==
    /\ join_pos.left = 2 /\ join_pos.right = 3
    /\ join_in.right[2] # join_in.right[3]
    /\ Tail(join_in.left[2]) # Tail(join_in.right[2])
    /\ Tail(join_in.left[2]) # Tail(join_in.right[3])
    /\ Len(DataSent) = 2

(* ---------------------------------------------------------------------- *)
(* C29: after any sequence of tuples each side's buffer holds exactly the *)
(* data tuples received on that side, in arrival order, so no record is   *)
(* ever removed or changed; and for every join column i and every buffer  *)
(* index k, k occurs exactly once in index[i][v] for v the value of       *)
(* record k in join column i, and in no other list of index[i].           *)
Occurrences(list, k) == Cardinality({n \in DOMAIN list : list[n] = k})

SideState(jd, received) ==
    /\ jd.data = [k \in 1..(Len(received) - 1) |-> Tail(received[k + 1])]
    /\ \A i \in DOMAIN jd.join_attr_positions, k \in DOMAIN jd.data :
            LET index == jd.join_attr_indices[i]
                v == jd.data[k][jd.join_attr_positions[i]]
            IN  /\ v \in DOMAIN index
                /\ Occurrences(index[v], k) = 1
                /\ \A u \in DOMAIN index \ {v} : Occurrences(index[u], k) = 0

C29_JoinSideState ==
    /\ SideState(join_st.left_join_data, SubSeq(join_in.left, 1, join_pos.left))
    /\ SideState(join_st.right_join_data, SubSeq(join_in.right, 1, join_pos.right))

(* Both sides hold two records; the right side has two join columns and   *)
(* its two records share the value of the first of them.                  *)
C29_Witness ==
    /\ Len(join_st.left_join_data.data) = 2
    /\ Len(join_st.right_join_data.data) = 2
    /\ Len(join_st.right_join_data.join_attr_positions) = 2
    /\ \E v \in DOMAIN join_st.right_join_data.join_attr_indices[1] :
            join_st.right_join_data.join_attr_indices[1][v] = <<1, 2>>

----------------------------------------------------------------------------
(* ---- Claims about the Extend worker ---- *)

ExpressionNames == {ext_op.functions[i].name : i \in DOMAIN ext_op.functions}

(* The function description the configuration gives for an output name. *)
ExpressionOf(name) ==
    LET i == CHOOSE i \in DOMAIN ext_op.functions : ext_op.functions[i].name = name
    IN  ext_op.functions[i].function

(* The value of an expression for the k-th tuple of the upstream. *)
ExpressionValue(name, k) ==
    exec(ExpressionOf(name),
         new_variable_names(ext_op.join_alias, ext_in[1]),
         data_to_process(ext_op.join_alias, ext_in[k]))[1]

(* C9: in every state, what an Extend has sent on an outbound channel is   *)
(* first the tuple [node_id, output names without their first character],  *)
(* second the tuple [node_id, result types], and then one data tuple per   *)
(* upstream data tuple, and there is one order of the expressions such     *)
(* that column i of the names, of the types and of every data tuple is the *)
(* name, the type and the value of the i-th expression.  The names are     *)
(* sent before anything is received, the types right after them.           *)
C9_ExtendOutputProtocol ==
    /\ ext_pc # "names" => Len(ext_out) >= 1
    /\ ext_pc \notin {"names", "types"} => Len(ext_out) >= 2
    /\ \E order \in Orders(ExpressionNames) :
        /\ Len(ext_out) >= 1 =>
            ext_out[1] = <<ext_node_id>>
                \o [i \in DOMAIN order |-> SubSeq(order[i], 2, Len(order[i]))]
        /\ Len(ext_out) >= 2 =>
            ext_out[2] = <<ext_node_id>>
                \o [i \in DOMAIN order |-> get_result_type(ExpressionOf(order[i]))]
        /\ \A k \in 3..Len(ext_out) :
            ext_out[k] = <<ext_node_id>>
                \o [i \in DOMAIN order |-> ExpressionValue(order[i], k - 1)]

(* An Extend that carries a join alias has sent names, types and two data  *)
(* tuples of three columns with three different result types, and exited.  *)
C9_Witness ==
    /\ ext_pc = "exited"
    /\ ext_op.join_alias # None
    /\ Len(ext_op.functions) = 3
    /\ Len(ext_out) = 4
    /\ Len(ext_out[4]) = 4

(* The header of the upstream followed by the same names prefixed with the *)
(* alias and an underscore.                                                *)
DoubledHeader(alias, header) ==
    header \o [i \in DOMAIN header |-> alias \o "_" \o header[i]]

RECURSIVE ReferenceIn(_)
ReferenceIn(function) ==
    CASE function.kind = "Reference" -> Some(function.value)
      [] function.kind \in {"Iri", "Literal"} -> ReferenceIn(function.value)
      [] OTHER -> None

(* The position of the leftmost element of the header that equals the      *)
(* name, and the first position (index 0 of the code) when none does.      *)
Leftmost(name, header) ==
    LET matches == {i \in DOMAIN header : header[i] = name}
    IN  IF matches = {} THEN 1
        ELSE CHOOSE i \in matches : \A j \in matches : i <= j

(* C34: a Reference to a name, bound to a header, yields for every input   *)
(* the one-element sequence that holds the input's element at the position *)
(* of the leftmost header element equal to the name, and the input's first *)
(* element when no header element equals the name.  So it is for every     *)
(* data tuple an Extend has processed and for every Reference among its    *)
(* functions, and the value the Extend sent in that function's column is   *)
(* that element (INVALID when an Iri wraps it and it is no valid IRI).     *)
C34_ReferenceLeftmost ==
    ext_pos >= 1 =>
        \A k \in 2..ext_pos : \A i \in DOMAIN ext_op.functions :
            LET function == ext_op.functions[i].function
                input == data_to_process(ext_op.join_alias, ext_in[k])
                element == input[Leftmost(ReferenceIn(function)[1], ext_names)]
            IN  ReferenceIn(function) # None =>
                    /\ exec(Reference(ReferenceIn(function)[1]), ext_names, input)
                            = <<element>>
                    /\ (ext_pc # "panicked" /\ Len(ext_out) = ext_pos + 1) =>
                            ext_out[k + 1][i + 1] =
                                IF function.kind = "Iri" /\ ~valid_iri_check(element)
                                THEN "INVALID" ELSE element

(* An Extend bound to the header [1, b, b] has processed the data tuple    *)
(* [1, "1", "x y"] and sent "1" for its Reference to b, the leftmost of    *)
(* the two columns, and the node id "1" of column 0 for its Reference to   *)
(* the absent name z.                                                      *)
C34_Witness ==
    /\ ext_pos = 2
    /\ ext_in[1] = <<left_node_id, "b", "b">>
    /\ ext_in[2] = <<left_node_id, "1", "x y">>
    /\ Len(ext_out) = 3
    /\ \E i, j \in DOMAIN ext_op.functions :
        /\ ext_op.functions[i].function = Iri(Reference("b"))
        /\ ext_op.functions[j].function = Literal(Reference("z"))
        /\ ext_out[3][i + 1] = "1"
        /\ ext_out[3][j + 1] = left_node_id

(* The parts of the TemplateString inside a function description, through  *)
(* its Iri and Literal wrappers; None when the innermost is none.          *)
RECURSIVE TemplateStringIn(_)
TemplateStringIn(function) ==
    CASE function.kind = "TemplateString" -> Some(function.value)
      [] function.kind \in {"Iri", "Literal"} -> TemplateStringIn(function.value)
      [] OTHER -> None

(* The literal parts and, for every variable part, the input's value of    *)
(* that variable as it is, one after the other.                            *)
RECURSIVE Verbatim(_, _, _)
Verbatim(parts, header, input) ==
    IF parts = <<>> THEN ""
    ELSE (IF Head(parts)[1]
          THEN template_value(Head(parts)[2], header, input)
          ELSE Head(parts)[2])
         \o Verbatim(Tail(parts), header, input)

(* C35: for every data tuple an Extend has processed and every             *)
(* TemplateString among its functions that has a value for each of its     *)
(* variables, evaluation returns one string: the literal parts of the      *)
(* template and, at each variable part, the tuple's value of the variable  *)
(* unchanged, without percent-encoding.                                    *)
C35_TemplateStringVerbatim ==
    ext_pos >= 1 =>
        \A k \in 2..ext_pos : \A i \in DOMAIN ext_op.functions :
            LET function == ext_op.functions[i].function
                input == data_to_process(ext_op.join_alias, ext_in[k])
                parts == TemplateStringIn(function)[1]
            IN  (/\ TemplateStringIn(function) # None
                 /\ ~exec_panics(TemplateString(parts), ext_names, input)) =>
                    exec(TemplateString(parts), ext_names, input)
                        = <<Verbatim(parts, ext_names, input)>>

----------------------------------------------------------------------------
(* ---- Claims about the driver and the running workers ---- *)

SourceIds == {id \in DOMAIN run_plan : RunKind(id) = "Source"}

(* Every source has reached the end of its file or failed to open it. *)
SourcesDone == \A s \in SourceIds : workers[s].pc = "exited"

(* Every worker has exited and the driver's wait on the handles is over. *)
AllDone ==
    /\ \A w \in DOMAIN workers : workers[w].pc = "exited"
    /\ driver.pc = "returned"

(* Some worker is live and neither a worker nor the driver can take a step. *)
Deadlock ==
    /\ driver.pc # "panicked"
    /\ \E w \in DOMAIN workers : workers[w].pc \in Live
    /\ ~ENABLED RunNext

(* C7: for the reduced plan of a run and every channel capacity from 0,    *)
(* no reachable state is a deadlock (a worker is live and nothing can      *)
(* step), and in every state in which all sources are done either every    *)
(* worker has exited and the driver's wait on the join handles is over, or *)
(* a step is still possible; runs being finite, that is termination.       *)
C7_TerminationByChannelClosure ==
    /\ ~Deadlock
    /\ SourcesDone => (AllDone \/ ENABLED RunNext)

NonZeroWorkers == {w \in DOMAIN workers : workers[w].code # 0}

(* C8: when start has returned, no worker it started is still running;    *)
(* the result is success exactly when every worker of the plan has         *)
(* finished with code 0, and an error result holds the (code, message) of  *)
(* every worker whose code is not 0.                                       *)
C8_DriverAggregation ==
    driver.pc = "returned" =>
        /\ \A w \in DOMAIN workers : workers[w].pc \notin Live
        /\ driver.result = "Ok" <=>
                \A w \in DOMAIN workers :
                    workers[w].pc = "exited" /\ workers[w].code = 0
        /\ driver.result = "Err" =>
                \A w \in NonZeroWorkers :
                    \E k \in DOMAIN driver.errors :
                        driver.errors[k] = <<workers[w].code, workers[w].msg>>

(* C17: a CSV source that cannot open its file never reads or sends (it    *)
(* is never at the loop or at a send), its worker exits with the status    *)
(* (1, "Cannot open ..."), and when start has returned its result is an    *)
(* error that holds that status.                                           *)
C17_SourceOpenFailure ==
    \A w \in SourceIds :
        run_opts.files[w] = "unreadable" =>
            /\ workers[w].pc \in {"none", "open", "exited"}
            /\ workers[w].pc = "exited" =>
                /\ workers[w].code = 1
                /\ workers[w].msg = "Cannot open"
                /\ driver.pc = "returned" =>
                    /\ driver.result = "Err"
                    /\ <<1, "Cannot open">> \in Range(driver.errors)

(* ---------------------------------------------------------------------- *)
(* C30: for the rewritten plan, once the workers are started, every node  *)
(* with a non-empty from list owns exactly one receiver and every node    *)
(* with an empty from list owns none; for every node n and every u in     *)
(* n.from, u holds a sender into n's channel; a Source holds senders      *)
(* only and a Target a receiver only; and no sender or receiver remains   *)
(* held by the driver.                                                    *)

(* The channels whose receiver the worker of node n was started with. *)
ReceiversOf(n) ==
    IF workers[n].pc # "none" /\ n \in DOMAIN channels /\ RunKind(n) # "Source"
    THEN {n} ELSE {}

WorkersStarted == driver.pc = "join" /\ driver.joined = 0

C30_ChannelFabric ==
    WorkersStarted =>
        /\ \A n \in DOMAIN run_plan :
            /\ Cardinality(ReceiversOf(n)) = IF run_plan[n].from # <<>> THEN 1 ELSE 0
            /\ \A u \in Range(run_plan[n].from) :
                    u \in DOMAIN workers /\ n \in Range(workers[u].tx)
            /\ RunKind(n) = "Source" => ReceiversOf(n) = {} /\ workers[n].tx # <<>>
            /\ RunKind(n) = "Target" => ReceiversOf(n) = {n} /\ workers[n].tx = <<>>
        /\ DOMAIN driver.sender_map = {}
        /\ driver.receiver_map = {}

----------------------------------------------------------------------------
(* ---- Claims about the elided self-join ---- *)

(* The attribute pairs the removed self-join may have had. *)
SelfJoinPairs == {<< <<"a", "a">> >>, << <<"a", "b">> >>}

(* The records of the single upstream, as positions of ext_in. *)
UpstreamRecords == 2..Len(ext_in)

(* The header and the data tuples of the inner join of the upstream with   *)
(* itself, as a Join worker sends them (join.rs lines 96-100, 111-115).    *)
SelfJoinHeader ==
    LET names == Tail(ext_in[1])
    IN  <<join_node_id>> \o names \o [p \in DOMAIN names |-> prefixed(names[p])]

SelfJoinMatches(pairs) ==
    {lr \in UpstreamRecords \X UpstreamRecords :
        \A i \in DOMAIN pairs :
            Tail(ext_in[lr[1]])[ColumnOf(Tail(ext_in[1]), pairs[i][1])]
                = Tail(ext_in[lr[2]])[ColumnOf(Tail(ext_in[1]), pairs[i][2])]}

SelfJoinTuple(lr) ==
    <<join_node_id>> \o Tail(ext_in[lr[1]]) \o Tail(ext_in[lr[2]])

(* What this Extend sends for one tuple of the join when it carries no     *)
(* alias and the join is its upstream.                                     *)
ExtendOfJoined(lr) ==
    node_id_plus_result(ext_node_id, ext_op.functions,
                        new_variable_names(None, SelfJoinHeader),
                        data_to_process(None, SelfJoinTuple(lr)))

(* The data tuples the Extend has sent (after the names and the types). *)
ExtendDataSent == SubSeq(ext_out, 3, Len(ext_out))

(* C11: an Extend that carries the alias of an elided self-join and has    *)
(* consumed its upstream has sent the same multiset of data tuples as it   *)
(* sends when fed by the inner join of the upstream with itself on the     *)
(* join's attribute pairs, the right columns prefixed with the alias.      *)
C11_ElidedSelfJoinEquivalence ==
    (ext_pc = "exited" /\ ext_op.join_alias # None /\ ext_in # <<>>) =>
        \A pairs \in SelfJoinPairs :
            \A t \in Range(ExtendDataSent)
                        \cup {ExtendOfJoined(lr) : lr \in SelfJoinMatches(pairs)} :
                Cardinality({k \in DOMAIN ExtendDataSent : ExtendDataSent[k] = t})
                    = Cardinality({lr \in SelfJoinMatches(pairs) : ExtendOfJoined(lr) = t})

----------------------------------------------------------------------------
(* ---- Claims about the sink ---- *)

(* The elements of a tuple from index 1 onwards, a newline between them. *)
RECURSIVE Joined(_)
Joined(elements) ==
    IF elements = <<>> THEN ""
    ELSE Head(elements) \o (IF Len(elements) > 1 THEN "\n" ELSE "") \o Joined(Tail(elements))

(* The lines received so far, in arrival order. *)
LinesReceived == [k \in 1..sink_pos |-> Joined(Tail(sink_in[k]))]

(* The first occurrence of each distinct element, in order. *)
FirstOccurrences(seq) ==
    LET firsts == SelectSeq([k \in DOMAIN seq |-> k],
                            LAMBDA k : \A j \in 1..(k - 1) : seq[j] # seq[k])
    IN  [i \in DOMAIN firsts |-> seq[firsts[i]]]

(* C12: a sink with deduplicate = true has written each distinct line it   *)
(* received exactly once, newline-terminated, in the arrival order of the  *)
(* first occurrences, whatever the sequence of inbound tuples.             *)
C12_DeduplicatingSink ==
    sink_deduplicate =>
        sink_out = [i \in DOMAIN FirstOccurrences(LinesReceived) |->
                        FirstOccurrences(LinesReceived)[i] \o "\n"]

(* The sink received a, a, b, a, wrote a and b, and exited. *)
C12_Witness ==
    /\ sink_deduplicate
    /\ sink_pc = "exited"
    /\ LinesReceived = <<"a", "a", "b", "a">>
    /\ sink_out = <<"a\n", "b\n">>

(* ---------------------------------------------------------------------- *)
(* C33: without deduplication the sink writes, for every inbound tuple in *)
(* arrival order, the tuple's elements from index 1 onwards joined by     *)
(* newline plus a trailing newline, as one write; nothing else is         *)
(* written, the writer is flushed before the exit, and the status of the  *)
(* worker is always (0, "").                                              *)
C33_PlainSink ==
    ~sink_deduplicate =>
        /\ sink_out = [k \in 1..sink_pos |-> LinesReceived[k] \o "\n"]
        /\ sink_status # None => sink_status = Some(<<0, "">>)
        /\ sink_pc = "exited" =>
            /\ sink_pos = Len(sink_in)
            /\ sink_flushed
            /\ sink_status = Some(<<0, "">>)

(* The sink received a line twice and a tuple of two elements, wrote all  *)
(* three and exited.                                                      *)
C33_Witness ==
    /\ ~sink_deduplicate
    /\ sink_pc = "exited"
    /\ sink_in = << <<serialize_node_id, "a">>, <<serialize_node_id, "a", "b">>,
                    <<serialize_node_id, "a">> >>
    /\ sink_out = <<"a\n", "a\nb\n", "a\n">>

----------------------------------------------------------------------------
(* ---- Claims about parse_template ---- *)
(* The template is described here position by position, independently of   *)
(* the parser's locals.                                                    *)
TemplatePositions == 1..Len(tpl_template)

(* The number of backslashes that stand immediately before position i. *)
BackslashesBefore(i) ==
    CHOOSE n \in 0..(i - 1) :
        /\ \A k \in (i - n)..(i - 1) : CharAt(tpl_template, k) = "\\"
        /\ n < i - 1 => CharAt(tpl_template, i - n - 1) # "\\"

(* The character at i is escaped by the backslash before it. *)
Escaped(i) == BackslashesBefore(i) % 2 = 1

(* The backslash at i escapes the character after it. *)
Escapes(i) == CharAt(tpl_template, i) = "\\" /\ ~Escaped(i)

UnescapedBrace(i) == CharAt(tpl_template, i) \in {"{", "}"} /\ ~Escaped(i)

(* A variable segment is open just before position i. *)
SegmentOpenBefore(i) ==
    LET braces == {p \in 1..(i - 1) : UnescapedBrace(p)}
    IN  /\ braces # {}
        /\ CharAt(tpl_template, CHOOSE p \in braces : \A q \in braces : q <= p) = "{"

Malformed ==
    \/ \E i \in TemplatePositions :
        UnescapedBrace(i) /\ CharAt(tpl_template, i) = "{" /\ SegmentOpenBefore(i)
    \/ \E i \in TemplatePositions :
        UnescapedBrace(i) /\ CharAt(tpl_template, i) = "}" /\ ~SegmentOpenBefore(i)
    \/ SegmentOpenBefore(Len(tpl_template) + 1)
    \/ \E i \in TemplatePositions :
        Escaped(i) /\ CharAt(tpl_template, i) \notin {"{", "}", "\\"}
    \/ Escaped(Len(tpl_template) + 1)

(* C14: parse_template returns an error, and no parts, exactly for the     *)
(* templates with an unescaped '{' inside an open variable segment, an     *)
(* unescaped '}' outside a variable segment, a segment still open at the   *)
(* end, a backslash before a character other than '{', '}', '\', or a     *)
(* trailing backslash; every other template is accepted.                   *)
C14_ParseErrors ==
    tpl_result.kind # "none" =>
        IF Malformed THEN tpl_result = [kind |-> "Err", parts |-> <<>>]
        ELSE tpl_result.kind = "Ok"

(* The characters of the template at the positions that satisfy Keep, in   *)
(* order, from position i on.                                              *)
RECURSIVE Kept(_, _)
Kept(Keep(_), i) ==
    IF i > Len(tpl_template) THEN ""
    ELSE (IF Keep(i) THEN CharAt(tpl_template, i) ELSE "") \o Kept(Keep, i + 1)

Unescaped == Kept(LAMBDA i : ~Escapes(i), 1)

(* C15: the step for an escaped '{', '}' or '\' appends exactly that       *)
(* character to the text being accumulated and leaves the parts and the    *)
(* open/closed state of the variable segment alone; a non-empty accepted   *)
(* template without unescaped braces gives the single literal part that    *)
(* is the template without its escaping backslashes.                       *)
C15_Escapes ==
    [][/\ (/\ tpl_pos' = tpl_pos + 1
           /\ Escaped(tpl_pos')
           /\ CharAt(tpl_template, tpl_pos') \in {"{", "}", "\\"})
          => /\ tpl_st'.current_str
                    = tpl_st.current_str \o CharAt(tpl_template, tpl_pos')
             /\ tpl_st'.between_cb = tpl_st.between_cb
             /\ tpl_st'.template_string_parts = tpl_st.template_string_parts
             /\ tpl_result' = tpl_result
       /\ (/\ tpl_result'.kind = "Ok"
           /\ tpl_template # ""
           /\ \A i \in TemplatePositions : ~UnescapedBrace(i))
          => tpl_result'.parts = << <<FALSE, Unescaped>> >>]_vars

(* `\{a\}` was parsed to the one literal part `{a}`. *)
C15_Witness ==
    /\ tpl_template = "\\{a\\}"
    /\ tpl_result = [kind |-> "Ok", parts |-> << <<FALSE, "{a}">> >>]

(* The concatenation of the literal parts, in order. *)
RECURSIVE LiteralText(_)
LiteralText(parts) ==
    IF parts = <<>> THEN ""
    ELSE (IF Head(parts)[1] THEN "" ELSE Head(parts)[2]) \o LiteralText(Tail(parts))

(* Position i is outside every {...} segment, braces included. *)
OutsideSegments(i) == ~UnescapedBrace(i) /\ ~SegmentOpenBefore(i)

(* C16 as stated: for every accepted template the concatenation of the     *)
(* literal parts equals the template with all {...} segments removed.      *)
C16_LiteralPartsAsStated ==
    tpl_result.kind = "Ok" =>
        LiteralText(tpl_result.parts) = Kept(OutsideSegments, 1)

(* C16: for every accepted template the concatenation of the literal       *)
(* parts equals the template with all {...} segments removed and every     *)
(* escape sequence replaced by the character it escapes.                   *)
C16_LiteralParts ==
    tpl_result.kind = "Ok" =>
        LiteralText(tpl_result.parts)
            = Kept(LAMBDA i : OutsideSegments(i) /\ ~Escapes(i), 1)

(* An accepted template with a variable segment followed by an escaped     *)
(* brace.                                                                  *)
C16_Witness ==
    /\ tpl_template = "{a}\\{"
    /\ tpl_result = [kind |-> "Ok", parts |-> << <<TRUE, "a">>, <<FALSE, "{">> >>]

(* The positions of the unescaped braces, and the n-th of them from the    *)
(* left; 0 stands before the first and the end of the template after the   *)
(* last.                                                                   *)
UnescapedBraces == {p \in TemplatePositions : UnescapedBrace(p)}

NthBrace(n) ==
    IF n = 0 THEN 0
    ELSE IF n > Cardinality(UnescapedBraces) THEN Len(tpl_template) + 1
    ELSE CHOOSE p \in UnescapedBraces :
            Cardinality({q \in UnescapedBraces : q < p}) = n - 1

(* The text between the n-th unescaped brace and the next, its escapes     *)
(* resolved.  In an accepted template the stretches after an odd brace are *)
(* the variable segments.                                                  *)
Stretch(n) ==
    Kept(LAMBDA i : NthBrace(n) < i /\ i < NthBrace(n + 1) /\ ~Escapes(i), 1)

(* A variable name without the prefix "<alias>_" of the join alias. *)
WithoutAliasPrefix(name) ==
    IF tpl_join_alias # None /\ starts_with(name, tpl_join_alias[1] \o "_")
    THEN SubSeq(name, Len(tpl_join_alias[1]) + 2, Len(name))
    ELSE name

(* The stretches that are not empty, left to right: a variable part for a  *)
(* segment, a literal part for the text outside.                           *)
ExpectedParts ==
    LET stretches == [n \in 1..(Cardinality(UnescapedBraces) + 1) |->
                        IF (n - 1) % 2 = 1
                        THEN <<TRUE, Stretch(n - 1)>>
                        ELSE <<FALSE, Stretch(n - 1)>>]
        filled == SelectSeq(stretches, LAMBDA part : part[2] # "")
    IN  [k \in DOMAIN filled |->
            IF filled[k][1] THEN <<TRUE, WithoutAliasPrefix(filled[k][2])>>
            ELSE filled[k]]

(* C36: the parts of an accepted template are, left to right, a variable   *)
(* part for every non-empty {...} segment and a literal part for every     *)
(* non-empty text outside the braces; an empty {} gives no part, and no    *)
(* part has an empty text.                                                 *)
C36_TemplateParts ==
    tpl_result.kind = "Ok" =>
        /\ tpl_result.parts = ExpectedParts
        /\ \A k \in DOMAIN tpl_result.parts : tpl_result.parts[k][2] # ""

(* C37: once the parser has closed a variable segment whose name is not    *)
(* empty, it has not failed, and the part it pushed holds the name without *)
(* its leading "<alias>_" when a join alias is given and the name starts   *)
(* with "<alias>_", and the unchanged name in every other case.            *)
C37_AliasStripping ==
    [][(/\ tpl_result.kind = "none"
        /\ tpl_pos' = tpl_pos + 1
        /\ CharAt(tpl_template, tpl_pos') = "}"
        /\ ~tpl_st.escape
        /\ tpl_st.between_cb
        /\ tpl_st.current_str # "")
       => /\ tpl_result'.kind = "none"
          /\ tpl_st'.template_string_parts =
                Append(tpl_st.template_string_parts,
                       <<TRUE, WithoutAliasPrefix(tpl_st.current_str)>>)]_vars

----------------------------------------------------------------------------
(* ---- Claims about whole runs ---- *)

(* The run is the one of the single-source plan with this predicate        *)
(* function and this Serialize template.                                   *)
PeopleRun(predicate, template) ==
    /\ Len(flow_input.plan.nodes) = 4
    /\ flow_input.plan.nodes[3].operator.config = template
    /\ flow_input.plan.nodes[2].operator.config["?p"] = predicate
    /\ flow_input.files["people.csv"].state = "found"

ExpectedLines ==
    {"<http://ex/person/1> <http://ex/name> \"Alice\" .",
     "<http://ex/person/2> <http://ex/name> \"Bob\" ."}

(* What the sink of the run wrote are exactly the texts of `lines`, each   *)
(* once and newline-terminated, in any order.                              *)
WroteExactly(lines) ==
    \A w \in DOMAIN flow_written :
        \E order \in Orders(lines) :
            flow_written[w] = [k \in DOMAIN order |-> order[k] \o "\n"]

(* C13: the run of Source(people.csv, {id, name}) -> Extend(?s, ?p, ?o) -> *)
(* Serialize(`<?s> <?p> ?o .`) -> sink on the rows 1,Alice and 2,Bob ends  *)
(* with start returning Ok and with exactly the two expected lines         *)
(* written, in any order.                                                  *)
C13_Scenario1 ==
    (PeopleRun(Constant("http://ex/name"), "<?s> <?p> ?o .") /\ flow_driver.pc # "join")
        => /\ flow_driver.pc = "returned"
           /\ flow_driver.result = "Ok"
           /\ WroteExactly(ExpectedLines)

(* C18: every tuple a worker has sent on a channel, or is about to send,   *)
(* whether of names, of types or of data, has the worker's node id as its  *)
(* first element.                                                          *)
C18_ProducerIdFirst ==
    \A w \in DOMAIN flow_w :
        /\ \A k \in DOMAIN flow_sent[w] :
            /\ flow_sent[w][k].tuple # <<>>
            /\ Head(flow_sent[w][k].tuple) = to_string(w)
        /\ \A k \in DOMAIN flow_w[w].queue :
            /\ flow_w[w].queue[k].tuple # <<>>
            /\ Head(flow_w[w].queue[k].tuple) = to_string(w)

(* The run of the join plan in which both sources sent their header and    *)
(* their row, the Join its merged header and the match, the Extend its     *)
(* names, its types and a result, and the Serialize the rendered line.     *)
C18_Witness ==
    /\ \E w \in DOMAIN flow_w : FlowKind(w) = "Join" /\ Len(flow_sent[w]) = 2
    /\ \A w \in DOMAIN flow_w :
        /\ FlowKind(w) = "Source" => Len(flow_sent[w]) = 2
        /\ FlowKind(w) = "Extend" => Len(flow_sent[w]) = 3
        /\ FlowKind(w) = "Serialize" => Len(flow_sent[w]) = 1

(* The nodes of the mapping plan that rewrite removes as pass-throughs. *)
Elided(id) == flow_input.plan.nodes[id].operator.kind \in {"Project", "Fragment"}

(* The elided nodes below node id in the mapping plan: its successors and, *)
(* n times over, the successors of those.                                  *)
RECURSIVE ElidedBelow(_, _)
ElidedBelow(id, n) ==
    LET successors(froms) ==
            {e[2] : e \in {f \in Range(flow_input.plan.edges) :
                                f[1] \in froms /\ Elided(f[2])}}
    IN  IF n = 0 THEN successors({id})
        ELSE ElidedBelow(id, n - 1) \cup successors(ElidedBelow(id, n - 1))

ProjectionsBelow(id) ==
    {p \in ElidedBelow(id, Len(flow_input.plan.nodes)) :
        flow_input.plan.nodes[p].operator.kind = "Project"}

AttributesOf(node) == IF node.attributes = None THEN {} ELSE node.attributes[1]

(* The header tuples of source s: what it sent first on each channel. *)
HeaderTuples(s) ==
    {flow_sent[s][k].tuple : k \in {i \in DOMAIN flow_sent[s] : i <= Len(flow_w[s].tx)}}

(* C19: after rewrite the attributes of a Source contain the               *)
(* projection_attributes of every Projection that was below it, directly   *)
(* or through removed Fragmenters and Projections, and the header tuple    *)
(* the Source sends names exactly the Source's attributes.                 *)
C19_ProjectionPushdown ==
    \A s \in DOMAIN flow_plan :
        FlowKind(s) = "Source" =>
            /\ \A p \in ProjectionsBelow(s) :
                flow_input.plan.nodes[p].operator.projection_attributes
                    \subseteq AttributesOf(flow_plan[s])
            /\ \A header \in HeaderTuples(s) :
                Range(Tail(header)) = AttributesOf(flow_plan[s])

(* The nodes of the mapping plan with an edge into, or out of, node id. *)
InputFrom(id) == {e[1] : e \in {f \in Range(flow_input.plan.edges) : f[2] = id}}
InputTo(id) == {e[2] : e \in {f \in Range(flow_input.plan.edges) : f[1] = id}}

Fragmenters ==
    {f \in DOMAIN flow_input.plan.nodes :
        flow_input.plan.nodes[f].operator.kind = "Fragment"}

(* What the source s sends on every channel once its file is read to the   *)
(* end: its header and then the rows, in the order of the file.            *)
SourceEmits(s) ==
    LET records == flow_input.files[FlowConfig(s)].records
        attributes == flow_w[s].st.attributes
    IN  [k \in DOMAIN records |->
            IF k = 1 THEN node_id_plus_headers(to_string(s), attributes)
            ELSE node_id_plus_data(to_string(s),
                                   csv_attribute_indices(records[1], attributes),
                                   records[k])]

IsPrefix(s, t) == Len(s) <= Len(t) /\ s = SubSeq(t, 1, Len(s))

(* C20: for A -> F -> [E1, E2] with F a Fragmenter the rewritten plan has  *)
(* no F, A.to holds E1 and E2 and not F, E1.from and E2.from hold A and    *)
(* not F; at run time what E1 and E2 each receive is A's header and then   *)
(* A's rows in the order A emits them, all of them once A and the          *)
(* receiver have returned.                                                 *)
C20_FragmenterElision ==
    \A f \in Fragmenters : \A a \in InputFrom(f) : \A e \in InputTo(f) :
        /\ f \notin DOMAIN flow_plan
        /\ e \in Range(flow_plan[a].to)
        /\ f \notin Range(flow_plan[a].to)
        /\ a \in Range(flow_plan[e].from)
        /\ f \notin Range(flow_plan[e].from)
        /\ IsPrefix(flow_recv[e], SourceEmits(a))
        /\ (flow_w[a].pc = "exited" /\ flow_w[e].pc = "exited")
                => flow_recv[e] = SourceEmits(a)

(* Both branches below the Fragmenter have received the header and the two *)
(* rows of the source.                                                     *)
C20_Witness ==
    /\ Fragmenters # {}
    /\ \A f \in Fragmenters : \A a \in InputFrom(f) : \A e \in InputTo(f) :
        /\ Cardinality(InputTo(f)) = 2
        /\ Len(flow_recv[e]) = 3
        /\ flow_recv[e] = SourceEmits(a)

InputTargets ==
    {t \in DOMAIN flow_input.plan.nodes :
        flow_input.plan.nodes[t].operator.kind = "Target"}

ReducedTargets == {t \in DOMAIN flow_plan : FlowKind(t) = "Target"}

BothForced ==
    flow_input.options.force_to_std_out /\ flow_input.options.force_to_file # None

WrittenTo(destination) ==
    {t \in DOMAIN flow_written :
        flow_w[t].st.writer = destination /\ flow_written[t] # <<>>}

EmittedHeaders(kind) ==
    CASE kind = "Source" -> 1
      [] kind = "Extend" -> 2
      [] kind = "Join" -> 1
      [] OTHER -> 0

Producer(tuple) == CHOOSE u \in DOMAIN flow_plan : to_string(u) = Head(tuple)

(* The tuples of one producer among those w received. *)
ReceivedFrom(w, id) ==
    SelectSeq(flow_recv[w], LAMBDA tuple : Head(tuple) = id)

(* The tuples u emitted, as they went to the receiver `to`. *)
EmittedTo(u, to) ==
    SelectSeq(flow_sent[u], LAMBDA send : send.to = to)

(* Whether w, as it stands, takes the next tuple for a header-style one. *)
TakesAsHeader(w, tuple) ==
    CASE FlowKind(w) = "Extend" -> flow_w[w].pc = "header"
      [] FlowKind(w) = "Serialize" -> flow_w[w].pc \in {"variable_names", "data_types"}
      [] FlowKind(w) = "Join" ->
            IF Head(tuple) = left_node_id
            THEN flow_w[w].st.left_join_attribute_indices = <<>>
            ELSE flow_w[w].st.right_join_attribute_indices = <<>>
      [] OTHER -> FALSE

ReceiveConforms(w) ==
    LET tuple == Head(flow_chan[w])
        nth == Len(ReceivedFrom(w, Head(tuple))) + 1
    IN  TakesAsHeader(w, tuple) <=> nth <= EmittedHeaders(FlowKind(Producer(tuple)))

DataTuples(u, to) == Len(EmittedTo(u, to)) - EmittedHeaders(FlowKind(u))

ExtendCounts ==
    \A e \in DOMAIN flow_plan :
        (FlowKind(e) = "Extend" /\ flow_driver.pc = "returned"
            /\ flow_driver.result = "Ok") =>
            \A u \in Range(flow_plan[e].from), d \in Range(flow_w[e].tx) :
                DataTuples(e, d) = DataTuples(u, e)

C26_StreamProtocol ==
    [][/\ \A w \in DOMAIN flow_w :
            Len(flow_recv'[w]) = Len(flow_recv[w]) + 1 => ReceiveConforms(w)
       /\ ExtendCounts']_vars

(* ---------------------------------------------------------------------- *)
(* C27: every data tuple a CSV source emits is as long as the header      *)
(* tuple it emitted, and its i-th element is the row's value of the       *)
(* attribute the header names at position i, whether or not every desired *)
(* attribute occurs in the file.                                          *)

(* The value the record holds for the attribute, if the file has it. *)
ValueOf(file, record, attribute) ==
    IF \E p \in DOMAIN file.records[1] : file.records[1][p] = attribute
    THEN Some(record[CHOOSE p \in DOMAIN file.records[1] :
                        file.records[1][p] = attribute])
    ELSE None

Aligned(s, to) ==
    LET emitted == EmittedTo(s, to)
        header == emitted[1].tuple
    IN  \A k \in 2..Len(emitted) :
            LET data == emitted[k].tuple
            IN  /\ Len(data) = Len(header)
                /\ \A i \in 2..Len(header) :
                        Some(data[i]) = ValueOf(FlowFile(s), FlowFile(s).records[k], header[i])

C27_DataAlignedWithHeader ==
    \A s \in DOMAIN flow_plan :
        FlowKind(s) = "Source" => \A to \in Range(flow_w[s].tx) : Aligned(s, to)

(* ---------------------------------------------------------------------- *)
(* C31: after the name tuple and the type tuple, for each data tuple the  *)
(* Serialize emits exactly one tuple [node_id, line] to every sender,     *)
(* where line is the template with each literal part copied verbatim and  *)
(* each variable replaced by <value> for the type iri, "value" for lit,   *)
(* _:value for blank, and the type tag itself for str.                    *)
Formatted(value, type) ==
    CASE type = "iri" -> "<" \o value \o ">"
      [] type = "lit" -> "\"" \o value \o "\""
      [] type = "blank" -> "_:" \o value
      [] type = "str" -> "str"

(* The column of the variable among the names the Serialize read. *)
ColumnNamed(names, variable) == CHOOSE i \in DOMAIN names : names[i] = variable

RECURSIVE Line(_, _, _, _)
Line(parts, names, types, payload) ==
    IF parts = <<>> THEN ""
    ELSE (IF Head(parts)[1]
          THEN LET i == ColumnNamed(names, Head(parts)[2])
               IN  Formatted(payload[i], types[i])
          ELSE Head(parts)[2])
         \o Line(Tail(parts), names, types, payload)

Rendered(w) ==
    LET st == flow_w[w].st
        line == Line(st.template_string_parts, st.variable_names, st.data_types,
                     Tail(Head(flow_chan[w])))
    IN  /\ flow_w'[w].pc # "panicked"
        /\ Len(flow_w'[w].queue) = Len(flow_w[w].tx)
        /\ \A k \in DOMAIN flow_w[w].tx :
            flow_w'[w].queue[k] = [to |-> flow_w[w].tx[k],
                                   tuple |-> <<to_string(w), line>>]

C31_SerializeRendering ==
    [][\A w \in DOMAIN flow_w :
        (FlowKind(w) = "Serialize" /\ Len(flow_recv[w]) >= 2
            /\ Len(flow_recv'[w]) = Len(flow_recv[w]) + 1) => Rendered(w)]_vars

(* A thread that has not ended holds a sender into the channel of c. *)
HasLiveSender(c) ==
    \E u \in DOMAIN flow_w :
        flow_w[u].pc \notin {"exited", "panicked"} /\ c \in Range(flow_w[u].tx)

(* The tuples sent into the channel of c by u are the tuples of u that c   *)
(* has taken from it, in the order of sending.                             *)
AllReceived(u, c) ==
    [k \in DOMAIN EmittedTo(u, c) |-> EmittedTo(u, c)[k].tuple]
        = ReceivedFrom(c, to_string(u))

(* What the owner of a channel has done with the tuples it received: a     *)
(* Target has written one text for each, every other thread has no send of *)
(* a result left to do.                                                    *)
AllProcessed(c) ==
    /\ flow_w[c].queue = <<>>
    /\ FlowKind(c) = "Target" =>
        flow_written[c] = [k \in DOMAIN flow_recv[c] |-> data_to_write(flow_recv[c][k])]

(* C39: when start has returned Ok every channel is empty and every tuple  *)
(* that was sent into it has been received and processed by its owner; and *)
(* a thread that returned the status 0 has an empty inbound channel into   *)
(* which no thread that is still running holds a sender.                   *)
C39_NoTupleLost ==
    /\ (flow_driver.pc = "returned" /\ flow_driver.result = "Ok") =>
        \A c \in DOMAIN flow_chan :
            /\ flow_chan[c] = <<>>
            /\ \A u \in DOMAIN flow_w : AllReceived(u, c)
            /\ AllProcessed(c)
    /\ \A c \in DOMAIN flow_chan :
        (flow_w[c].pc = "exited" /\ flow_w[c].code = 0) =>
            /\ flow_chan[c] = <<>>
            /\ ~HasLiveSender(c)

(* The run of the plan with two Targets has returned Ok, and a Target      *)
(* received and wrote two lines that two Serializes sent.                  *)
C39_Witness ==
    /\ flow_driver.pc = "returned"
    /\ flow_driver.result = "Ok"
    /\ \E c \in DOMAIN flow_written :
        /\ Len(flow_written[c]) = 2
        /\ \E u, v \in DOMAIN flow_w :
            /\ u # v
            /\ EmittedTo(u, c) # <<>>
            /\ EmittedTo(v, c) # <<>>

----------------------------------------------------------------------------
(* ---- Claims about the Serialize template ---- *)

(* Position i of the template lies inside a name that a '?' before i began. *)
InName(t, i) ==
    \E j \in 1..(i - 1) :
        CharAt(t, j) = "?" /\ \A k \in (j + 1)..i : CharAt(t, k) # " "

(* The positions of the '?' that begin a name, in ascending order. *)
NameStarts(t) ==
    SelectSeq([i \in 1..Len(t) |-> i], LAMBDA i : CharAt(t, i) = "?" /\ ~InName(t, i))

(* The characters after the '?' at i up to the next space or the end. *)
NameAt(t, i) ==
    LET ends == {e \in (i + 1)..Len(t) : CharAt(t, e) = " "} \cup {Len(t) + 1}
        end == CHOOSE e \in ends : \A f \in ends : e <= f
    IN  SubSeq(t, i + 1, end - 1)

VariableTexts(parts) ==
    LET variables == SelectSeq(parts, LAMBDA part : part[1])
    IN  [k \in DOMAIN variables |-> variables[k][2]]

(* The parts put together again, '?' before every variable. *)
RECURSIVE Restored(_)
Restored(parts) ==
    IF parts = <<>> THEN ""
    ELSE (IF Head(parts)[1] THEN "?" \o Head(parts)[2] ELSE Head(parts)[2])
         \o Restored(Tail(parts))

(* C32: every ?name of the template becomes a variable part whose text is *)
(* the characters after '?' up to, not including, the next space or the   *)
(* end of the template, all other text becomes literal parts, and the     *)
(* parts concatenated, with '?' restored before the variables, give back  *)
(* the template.                                                          *)
C32_SerializeTemplateParts ==
    scan_result # None =>
        /\ VariableTexts(scan_result[1]) =
                [k \in DOMAIN NameStarts(scan_template) |->
                    NameAt(scan_template, NameStarts(scan_template)[k])]
        /\ Restored(scan_result[1]) = scan_template

====
